---- MODULE Spec2Model ----
(***************************************************************************)
(* Verification model of the taxxon tax-filing wizard: the filing store    *)
(* (src/contexts/TaxFilingContext.tsx), its tax calculation engine         *)
(* (calculateSummary) and the numeric tolerance primitive valuesMatch of   *)
(* the cross-validation engine (src/lib/pdf/generate-tax-summary.ts).      *)
(*                                                                         *)
(* Numbers.  The program computes with JavaScript numbers.  The model      *)
(* computes with exact decimals: a Dec is [w, f] and stands for            *)
(* w + f / FRAC with 0 <= f < FRAC (w may be negative).  Two limbs are     *)
(* needed because the bracket thresholds times FRAC do not fit a 32-bit   *)
(* integer.  Amounts entered on slips are whole currency units             *)
(* (plain integers); every product with a rate of the program is exact at  *)
(* five decimals for such inputs.  Binary rounding of the last bits of a   *)
(* double is not modelled.                                                 *)
(***************************************************************************)
EXTENDS Integers, Sequences, FiniteSets, TLC

VARIABLES
    filings,         \* TaxFilingState.filings
    currentFiling,   \* TaxFilingState.currentFiling (Null or a filing)
    ret,             \* value returned by calculateSummary when the last step was a call, else Null
    calls,           \* consecutive calculateSummary calls since the last store mutation
    nEdits,          \* number of store operations performed so far (bounded)
    extracted,       \* valuesMatch: first argument
    entered,         \* valuesMatch: second argument
    matched,         \* valuesMatch: returned value
    vmPc,            \* valuesMatch: "idle" before the call, "done" after it
    xFiling,         \* cross-validation: the filing passed to the engine
    xDocs,           \* cross-validation: the extracted documents passed to the engine
    xRet,            \* cross-validation: what the last call returned, Null before a call
    request,         \* static rules: the SuggestionsRequest passed to getStaticSuggestions
    staticSuggestions, \* static rules: [list |-> the list returned], Null before the call
    uuids,           \* number of uuids and timestamps drawn so far
    pending,         \* the handleNetfileSubmit call awaiting its response, Null if none
    redirect,        \* [confirmation |-> n] once the submit page has pushed /confirmation
    storedFilings,   \* localStorage: the filings saved for the user
    storedCurrentId, \* localStorage: the current filing id, 0 when the key is absent
    page,            \* the page the browser shows: "off" before a load, "dashboard", "file"
    pendingFiles,    \* upload zone: the files selected and not yet uploaded
    uploading,       \* upload zone: the handleUpload call, Null before the first one
    mockSubmissions, \* mock provider: the map from confirmation number to submission
    acceptanceTimers, \* mock provider: the confirmation numbers whose timer is pending
    submitCalls,     \* mock provider: the requests of the submitFiling calls in their delay
    submitResponses, \* mock provider: what the submitFiling calls returned, in order
    statusResponse,  \* mock provider: what the last checkStatus call returned, or Null
    chat,            \* ChatState: messages, isStreaming, error
    chatCall         \* the sendMessage call reading its response, Null before the first one

vars == <<filings, currentFiling, ret, calls, nEdits, extracted, entered, matched, vmPc,
          xFiling, xDocs, xRet, request, staticSuggestions,
          uuids, pending, redirect, storedFilings, storedCurrentId, page,
          pendingFiles, uploading,
          mockSubmissions, acceptanceTimers, submitCalls, submitResponses, statusResponse,
          chat, chatCall>>

storeVars == <<filings, currentFiling, ret, calls, nEdits>>
matchVars == <<extracted, entered, matched, vmPc>>
crossVars == <<xFiling, xDocs, xRet>>
ruleVars == <<request, staticSuggestions>>
pageVars == <<uuids, pending, redirect>>
mountVars == <<storedFilings, storedCurrentId, page>>
uploadVars == <<pendingFiles, uploading>>
providerVars == <<mockSubmissions, acceptanceTimers, submitCalls, submitResponses,
                  statusResponse>>
chatVars == <<chat, chatCall>>

\* the variables of the parts of the program added after the filing store
extVars == <<mountVars, uploadVars, providerVars, chatVars>>

\* what a part leaves alone of the other parts added after the filing store
notMount == <<uploadVars, providerVars, chatVars>>
notUpload == <<mountVars, providerVars, chatVars>>
notProvider == <<mountVars, uploadVars, chatVars>>
notChat == <<mountVars, uploadVars, providerVars>>

Null == [null |-> TRUE]

\* the state of a part of the program in the specifications that do not run it
MountOff ==
    /\ storedFilings = <<>>
    /\ storedCurrentId = 0
    /\ page = "off"

UploadOff ==
    /\ pendingFiles = <<>>
    /\ uploading = Null

\* the provider module as loaded: no submission stored, no call made
ProviderOff ==
    /\ mockSubmissions = <<>>
    /\ acceptanceTimers = {}
    /\ submitCalls = <<>>
    /\ submitResponses = <<>>
    /\ statusResponse = Null

\* ChatContext's initialState (isOpen is not modelled)
ChatOff ==
    /\ chat = [messages |-> <<>>, isStreaming |-> FALSE, error |-> Null]
    /\ chatCall = Null

ExtOff == MountOff /\ UploadOff /\ ProviderOff /\ ChatOff

(***************************************************************************)
(* Bounds of the model.                                                    *)
(***************************************************************************)
MaxEdits == 3
MaxFilings == 1
MaxCalls == 2

(***************************************************************************)
(* Exact decimal arithmetic.                                               *)
(***************************************************************************)
FRAC == 10^5
RATEDEN == 10^4

DecOf(n) == [w |-> n, f |-> 0]
Cents(c) == [w |-> c \div 100, f |-> (c % 100) * (FRAC \div 100)]
Zero == DecOf(0)

DAdd(a, b) ==
    LET s == a.f + b.f
    IN  [w |-> a.w + b.w + (s \div FRAC), f |-> s % FRAC]

DSub(a, b) ==
    LET s == a.f - b.f
    IN  [w |-> a.w - b.w + (s \div FRAC), f |-> s % FRAC]

DLeq(a, b) == a.w < b.w \/ (a.w = b.w /\ a.f <= b.f)
DLt(a, b) == a.w < b.w \/ (a.w = b.w /\ a.f < b.f)
DMax(a, b) == IF DLt(a, b) THEN b ELSE a
DAbs(a) == IF DLt(a, Zero) THEN DSub(Zero, a) ELSE a

\* a * (n / RATEDEN): n is a rate of the program written over RATEDEN
\* (0.15 is 1500, 0.0505 is 505).
DMulRate(a, n) ==
    LET p  == a.w * n
        fr == (p % RATEDEN) * (FRAC \div RATEDEN) + ((a.f * n) \div RATEDEN)
    IN  [w |-> (p \div RATEDEN) + (fr \div FRAC), f |-> fr % FRAC]

\* a * k for an integer k
DMulInt(a, k) ==
    LET s == a.f * k
    IN  [w |-> a.w * k + (s \div FRAC), f |-> s % FRAC]

RECURSIVE DSum(_)
DSum(s) == IF s = <<>> THEN Zero ELSE DAdd(DSum(SubSeq(s, 1, Len(s) - 1)), s[Len(s)])

\* xs.reduce((sum, x) => sum + F(x), 0)
Reduce(F(_), xs) == DSum([i \in 1..Len(xs) |-> F(xs[i])])

(***************************************************************************)
(* The filing data model (types/tax-filing).  Slip and deduction records   *)
(* carry the numeric fields the engine reads; generated ids, names and     *)
(* timestamps are not read by any operation modelled here.                 *)
(***************************************************************************)
EmptyIncome ==
    [t4Slips |-> <<>>, t4aSlips |-> <<>>, t4eSlips |-> <<>>, t5Slips |-> <<>>,
     t3Slips |-> <<>>, t2202Slips |-> <<>>, t4rspSlips |-> <<>>, t5008Slips |-> <<>>,
     selfEmploymentIncome |-> 0, otherIncome |-> 0]

EmptyDeductions ==
    [rrspContributions |-> <<>>, charitableDonations |-> <<>>, medicalExpenses |-> <<>>,
     childcareExpenses |-> 0, homeOfficeDays |-> 0, homeOfficeMethod |-> "",
     movingExpenses |-> 0, studentLoanInterest |-> 0, professionalDues |-> 0]

EmptyPersonalInfo == [firstName |-> "", lastName |-> "", province |-> ""]

createEmptyFiling(id, year) ==
    [id |-> id, year |-> year, status |-> "not-started",
     personalInfo |-> EmptyPersonalInfo,
     income |-> EmptyIncome, deductions |-> EmptyDeductions,
     documents |-> <<>>, summary |-> Null, confirmationNumber |-> Null,
     submittedAt |-> Null]

\* { ...base, ...partial }
Merge(base, partial) ==
    [k \in DOMAIN base |-> IF k \in DOMAIN partial THEN partial[k] ELSE base[k]]

(***************************************************************************)
(* Tax calculation engine: calculateSummary.                               *)
(***************************************************************************)
ZeroSummary ==
    [totalIncome |-> Zero, totalDeductions |-> Zero, taxableIncome |-> Zero,
     federalTax |-> Zero, provincialTax |-> Zero, totalTax |-> Zero,
     totalCredits |-> Zero, totalPaid |-> Zero, refundOrOwing |-> Zero]

\* a bug that nets losses against gains across securities slips
T5008GainsNetted(slips) ==
    DMulRate(DMax(Zero, Reduce(LAMBDA slip : DecOf(slip.proceeds - slip.costBase), slips)),
             5000)

T5008Gains(slips) ==
    Reduce(LAMBDA slip : DMulRate(DMax(Zero, DecOf(slip.proceeds - slip.costBase)), 5000),
           slips)

TotalIncome(income) ==
    LET t4Income == Reduce(LAMBDA slip : DecOf(slip.employmentIncome), income.t4Slips)
        t4aIncome == Reduce(LAMBDA slip : DecOf(slip.pensionIncome + slip.lumpSumPayments
                                + slip.selfEmployedCommissions + slip.otherIncome),
                            income.t4aSlips)
        t4eIncome == Reduce(LAMBDA slip : DecOf(slip.eiBenefits), income.t4eSlips)
        t5Income == Reduce(LAMBDA slip : DecOf(slip.actualDividends
                                + slip.interestFromCanadianSources
                                + slip.capitalGainsDividends),
                           income.t5Slips)
        t3Income == Reduce(LAMBDA slip : DAdd(DMulRate(DecOf(slip.capitalGains), 5000),
                                DecOf(slip.eligibleDividends + slip.otherDividends
                                      + slip.otherIncome)),
                           income.t3Slips)
        t4rspIncome == Reduce(LAMBDA slip : DecOf(slip.rrspIncome), income.t4rspSlips)
        t5008Gains == T5008Gains(income.t5008Slips)
    IN  DSum(<<t4Income, t4aIncome, t4eIncome, t5Income, t3Income, t4rspIncome,
               t5008Gains, DecOf(income.selfEmploymentIncome), DecOf(income.otherIncome)>>)

\* a bug that counts student-loan interest as a deduction
TotalDeductionsWithLoan(deductions) ==
    LET rrspDeductions == Reduce(LAMBDA c : DecOf(c.contributionAmount),
                                 deductions.rrspContributions)
        homeOfficeDeduction ==
            IF deductions.homeOfficeMethod = "flat-rate"
            THEN DecOf(deductions.homeOfficeDays * 2) ELSE Zero
    IN  DSum(<<rrspDeductions, DecOf(deductions.childcareExpenses), homeOfficeDeduction,
               DecOf(deductions.movingExpenses), DecOf(deductions.professionalDues),
               DecOf(deductions.studentLoanInterest)>>)

TotalDeductions(deductions) ==
    LET rrspDeductions == Reduce(LAMBDA c : DecOf(c.contributionAmount),
                                 deductions.rrspContributions)
        homeOfficeDeduction ==
            IF deductions.homeOfficeMethod = "flat-rate"
            THEN DecOf(deductions.homeOfficeDays * 2) ELSE Zero
    IN  DSum(<<rrspDeductions, DecOf(deductions.childcareExpenses), homeOfficeDeduction,
               DecOf(deductions.movingExpenses), DecOf(deductions.professionalDues)>>)

\* a bug that uses < where the code uses <= at the bracket thresholds
FederalTaxStrict(taxableIncome) ==
    IF DLt(Zero, taxableIncome)
    THEN IF DLt(taxableIncome, DecOf(55867))
         THEN DMulRate(taxableIncome, 1500)
         ELSE IF DLt(taxableIncome, DecOf(111733))
         THEN DAdd(DecOf(8380), DMulRate(DSub(taxableIncome, DecOf(55867)), 2050))
         ELSE IF DLt(taxableIncome, DecOf(173205))
         THEN DAdd(DecOf(19833), DMulRate(DSub(taxableIncome, DecOf(111733)), 2600))
         ELSE IF DLt(taxableIncome, DecOf(246752))
         THEN DAdd(DecOf(35816), DMulRate(DSub(taxableIncome, DecOf(173205)), 2900))
         ELSE DAdd(DecOf(57144), DMulRate(DSub(taxableIncome, DecOf(246752)), 3300))
    ELSE Zero

FederalTax(taxableIncome) ==
    IF DLt(Zero, taxableIncome)
    THEN IF DLeq(taxableIncome, DecOf(55867))
         THEN DMulRate(taxableIncome, 1500)
         ELSE IF DLeq(taxableIncome, DecOf(111733))
         THEN DAdd(DecOf(8380), DMulRate(DSub(taxableIncome, DecOf(55867)), 2050))
         ELSE IF DLeq(taxableIncome, DecOf(173205))
         THEN DAdd(DecOf(19833), DMulRate(DSub(taxableIncome, DecOf(111733)), 2600))
         ELSE IF DLeq(taxableIncome, DecOf(246752))
         THEN DAdd(DecOf(35816), DMulRate(DSub(taxableIncome, DecOf(173205)), 2900))
         ELSE DAdd(DecOf(57144), DMulRate(DSub(taxableIncome, DecOf(246752)), 3300))
    ELSE Zero

\* a bug that uses < where the code uses <= at the first provincial threshold
ProvincialTaxStrict(taxableIncome) ==
    IF DLt(Zero, taxableIncome)
    THEN IF DLt(taxableIncome, DecOf(51446))
         THEN DMulRate(taxableIncome, 505)
         ELSE IF DLeq(taxableIncome, DecOf(102894))
         THEN DAdd(DecOf(2598), DMulRate(DSub(taxableIncome, DecOf(51446)), 915))
         ELSE IF DLeq(taxableIncome, DecOf(150000))
         THEN DAdd(DecOf(7307), DMulRate(DSub(taxableIncome, DecOf(102894)), 1116))
         ELSE IF DLeq(taxableIncome, DecOf(220000))
         THEN DAdd(DecOf(12563), DMulRate(DSub(taxableIncome, DecOf(150000)), 1216))
         ELSE DAdd(DecOf(21075), DMulRate(DSub(taxableIncome, DecOf(220000)), 1316))
    ELSE Zero

ProvincialTax(taxableIncome) ==
    IF DLt(Zero, taxableIncome)
    THEN IF DLeq(taxableIncome, DecOf(51446))
         THEN DMulRate(taxableIncome, 505)
         ELSE IF DLeq(taxableIncome, DecOf(102894))
         THEN DAdd(DecOf(2598), DMulRate(DSub(taxableIncome, DecOf(51446)), 915))
         ELSE IF DLeq(taxableIncome, DecOf(150000))
         THEN DAdd(DecOf(7307), DMulRate(DSub(taxableIncome, DecOf(102894)), 1116))
         ELSE IF DLeq(taxableIncome, DecOf(220000))
         THEN DAdd(DecOf(12563), DMulRate(DSub(taxableIncome, DecOf(150000)), 1216))
         ELSE DAdd(DecOf(21075), DMulRate(DSub(taxableIncome, DecOf(220000)), 1316))
    ELSE Zero

DonationCredit(d) ==
    LET amount == d.donationAmount
    IN  IF amount <= 200
        THEN DMulRate(DecOf(amount), 1500)
        ELSE DAdd(DecOf(30), DMulRate(DecOf(amount - 200), 2900))

\* a bug that applies the two-tier split once, to the sum of the donations
DonationCreditsOnTotal(donations) ==
    LET total == Reduce(LAMBDA d : DecOf(d.donationAmount), donations)
    IN  IF DLeq(total, DecOf(200))
        THEN DMulRate(total, 1500)
        ELSE DAdd(DecOf(30), DMulRate(DSub(total, DecOf(200)), 2900))

DonationCredits(donations) == Reduce(DonationCredit, donations)

TotalCredits(income, deductions, totalIncome) ==
    LET basicPersonalCredit == DMulRate(DecOf(15705), 1500)
        donationCredits == DonationCredits(deductions.charitableDonations)
        medicalCredits ==
            DMax(Zero,
                 DMulRate(DSub(Reduce(LAMBDA e : DecOf(e.amount), deductions.medicalExpenses),
                               DMulRate(totalIncome, 300)),
                          1500))
        tuitionCredits == Reduce(LAMBDA slip : DMulRate(DecOf(slip.eligibleTuitionFees), 1500),
                                 income.t2202Slips)
        studentLoanCredit == DMulRate(DecOf(deductions.studentLoanInterest), 1500)
    IN  DSum(<<basicPersonalCredit, donationCredits, medicalCredits, tuitionCredits,
               studentLoanCredit>>)

TotalPaid(income) ==
    LET t4TaxPaid == Reduce(LAMBDA slip : DecOf(slip.incomeTaxDeducted), income.t4Slips)
        t4aTaxPaid == Reduce(LAMBDA slip : DecOf(slip.incomeTaxDeducted), income.t4aSlips)
        t4eTaxPaid == Reduce(LAMBDA slip : DecOf(slip.incomeTaxDeducted), income.t4eSlips)
        t4rspTaxPaid == Reduce(LAMBDA slip : DecOf(slip.incomeTaxDeducted), income.t4rspSlips)
    IN  DSum(<<t4TaxPaid, t4aTaxPaid, t4eTaxPaid, t4rspTaxPaid>>)

\* a bug that forgets the floor at zero
TotalTaxUnfloored(federalTax, provincialTax, totalCredits) ==
    DSub(DAdd(federalTax, provincialTax), totalCredits)

TotalTax(federalTax, provincialTax, totalCredits) ==
    DMax(Zero, DSub(DAdd(federalTax, provincialTax), totalCredits))

calculateSummary(cf) ==
    IF cf = Null THEN ZeroSummary
    ELSE
    LET income == cf.income
        deductions == cf.deductions
        totalIncome == TotalIncome(income)
        totalDeductions == TotalDeductions(deductions)
        taxableIncome == DMax(Zero, DSub(totalIncome, totalDeductions))
        federalTax == FederalTax(taxableIncome)
        provincialTax == ProvincialTax(taxableIncome)
        totalCredits == TotalCredits(income, deductions, totalIncome)
        totalTax == TotalTax(federalTax, provincialTax, totalCredits)
        totalPaid == TotalPaid(income)
        refundOrOwing == DSub(totalPaid, totalTax)
    IN  [totalIncome |-> totalIncome, totalDeductions |-> totalDeductions,
         taxableIncome |-> taxableIncome, federalTax |-> federalTax,
         provincialTax |-> provincialTax, totalTax |-> totalTax,
         totalCredits |-> totalCredits, totalPaid |-> totalPaid,
         refundOrOwing |-> refundOrOwing]

(***************************************************************************)
(* Submission: transformFilingToNetfile builds the request sent to the     *)
(* NETFILE provider from a filing and its summary.  The totals of fields   *)
(* the slip records here do not carry (cppContributions, eiPremiums,       *)
(* unionDues) and the personal information are left out of the request.    *)
(***************************************************************************)
transformFilingToNetfile(filing, summary) ==
    LET income == filing.income
        deductions == filing.deductions
        totalEmploymentIncome ==
            Reduce(LAMBDA slip : DecOf(slip.employmentIncome), income.t4Slips)
        totalTaxWithheld ==
            DSum(<<Reduce(LAMBDA slip : DecOf(slip.incomeTaxDeducted), income.t4Slips),
                   Reduce(LAMBDA slip : DecOf(slip.incomeTaxDeducted), income.t4aSlips),
                   Reduce(LAMBDA slip : DecOf(slip.incomeTaxDeducted), income.t4eSlips)>>)
        investmentIncome ==
            DAdd(Reduce(LAMBDA slip : DecOf(slip.actualDividends
                                            + slip.interestFromCanadianSources),
                        income.t5Slips),
                 Reduce(LAMBDA slip : DAdd(DMulRate(DecOf(slip.capitalGains), 5000),
                                           DecOf(slip.eligibleDividends)),
                        income.t3Slips))
        rrspContributions ==
            Reduce(LAMBDA c : DecOf(c.contributionAmount), deductions.rrspContributions)
        charitableDonations ==
            Reduce(LAMBDA d : DecOf(d.donationAmount), deductions.charitableDonations)
        medicalExpenses ==
            Reduce(LAMBDA e : DecOf(e.amount), deductions.medicalExpenses)
        tuitionFees ==
            Reduce(LAMBDA slip : DecOf(slip.eligibleTuitionFees), income.t2202Slips)
    IN  [filingId |-> filing.id,
         taxYear |-> filing.year,
         income |-> [totalEmploymentIncome |-> totalEmploymentIncome,
                     totalTaxWithheld |-> totalTaxWithheld,
                     investmentIncome |-> investmentIncome,
                     selfEmploymentIncome |-> DecOf(income.selfEmploymentIncome),
                     otherIncome |-> DecOf(income.otherIncome)],
         deductions |-> [rrspContributions |-> rrspContributions,
                         childcareExpenses |-> DecOf(deductions.childcareExpenses),
                         movingExpenses |-> DecOf(deductions.movingExpenses),
                         otherDeductions |-> DecOf(deductions.professionalDues)],
         credits |-> [basicPersonalAmount |-> DecOf(15705),
                      charitableDonations |-> charitableDonations,
                      medicalExpenses |-> medicalExpenses,
                      tuitionFees |-> tuitionFees,
                      studentLoanInterest |-> DecOf(deductions.studentLoanInterest)],
         calculated |-> [totalIncome |-> summary.totalIncome,
                         netIncome |-> DSub(summary.totalIncome, summary.totalDeductions),
                         taxableIncome |-> summary.taxableIncome,
                         federalTax |-> summary.federalTax,
                         provincialTax |-> summary.provincialTax,
                         totalTax |-> summary.totalTax,
                         totalCredits |-> summary.totalCredits,
                         refundOrOwing |-> summary.refundOrOwing]]

(***************************************************************************)
(* The filing store: taxFilingReducer and the provider's operations.       *)
(***************************************************************************)
MapFilings(fs, updated) ==
    [i \in 1..Len(fs) |-> IF fs[i].id = updated.id THEN updated ELSE fs[i]]

taxFilingReducer(state, action) ==
    CASE action.type = "SET_FILINGS" ->
            [state EXCEPT !.filings = action.payload]
      [] action.type = "SET_CURRENT_FILING" ->
            [state EXCEPT !.currentFiling = action.payload]
      [] action.type = "UPDATE_CURRENT_FILING" ->
            IF state.currentFiling = Null THEN state
            ELSE LET updated == Merge(state.currentFiling, action.payload)
                 IN  [state EXCEPT !.currentFiling = updated,
                                   !.filings = MapFilings(state.filings, updated)]
      [] OTHER -> state

State == [filings |-> filings, currentFiling |-> currentFiling]

Dispatch(state) ==
    /\ filings' = state.filings
    /\ currentFiling' = state.currentFiling

RemoveAt(xs, i) == SubSeq(xs, 1, i - 1) \o SubSeq(xs, i + 1, Len(xs))

(***************************************************************************)
(* Inputs: the values a user enters.  Amounts are whole currency units.    *)
(***************************************************************************)
Years == {2024}

T4Inputs ==
    {[employmentIncome |-> 50000, incomeTaxDeducted |-> 8000],
     [employmentIncome |-> 1446, incomeTaxDeducted |-> 300]}
T4AInputs ==
    {[pensionIncome |-> 1000, lumpSumPayments |-> 200, selfEmployedCommissions |-> 30,
      otherIncome |-> 4, incomeTaxDeducted |-> 150]}
T4EInputs == {[eiBenefits |-> 5000, incomeTaxDeducted |-> 700]}
T5Inputs ==
    {[actualDividends |-> 100, interestFromCanadianSources |-> 20,
      capitalGainsDividends |-> 3]}
T3Inputs ==
    {[capitalGains |-> 1001, eligibleDividends |-> 10, otherDividends |-> 20,
      otherIncome |-> 30]}
T2202Inputs == {[eligibleTuitionFees |-> 4000]}
T4RSPInputs == {[rrspIncome |-> 2000, incomeTaxDeducted |-> 400]}
T5008Inputs ==
    {[proceeds |-> 1500, costBase |-> 1000], [proceeds |-> 1000, costBase |-> 3000]}
SelfEmploymentInputs == {0, 1, 70000}
OtherIncomeInputs ==
    {0, 51446, 55867, 102894, 111733, 150000, 173205, 220000, 246752, 300000}

RRSPInputs == {[contributionAmount |-> 5000], [contributionAmount |-> 60000]}
DonationInputs == {[donationAmount |-> 100], [donationAmount |-> 200],
                   [donationAmount |-> 300]}
MedicalInputs == {[amount |-> 500], [amount |-> 2000]}
ChildcareInputs == {0, 3000}
HomeOfficeDaysInputs == {0, 100}
HomeOfficeMethods == {"", "flat-rate", "detailed"}
MovingInputs == {0, 800}
StudentLoanInputs == {0, 600}
ProfessionalDuesInputs == {0, 450}

\* A list payload appends one record with its fields filled in (the form's add
\* followed by its field edits, or a record accepted from an extraction), or drops
\* the record at one position (the form's remove).
ListEdits(rec, field, inputs) ==
    {[x \in {field} |-> Append(rec[field], s)] : s \in inputs}
    \cup {[x \in {field} |-> RemoveAt(rec[field], i)] : i \in 1..Len(rec[field])}

FieldEdits(rec, field, inputs) ==
    {[x \in {field} |-> v] : v \in inputs \ {rec[field]}}

\* the Partial<IncomeData> payloads the income form passes to updateIncome
IncomePartials(income) ==
    ListEdits(income, "t4Slips", T4Inputs)
    \cup ListEdits(income, "t4aSlips", T4AInputs)
    \cup ListEdits(income, "t4eSlips", T4EInputs)
    \cup ListEdits(income, "t5Slips", T5Inputs)
    \cup ListEdits(income, "t3Slips", T3Inputs)
    \cup ListEdits(income, "t2202Slips", T2202Inputs)
    \cup ListEdits(income, "t4rspSlips", T4RSPInputs)
    \cup ListEdits(income, "t5008Slips", T5008Inputs)
    \cup FieldEdits(income, "selfEmploymentIncome", SelfEmploymentInputs)
    \cup FieldEdits(income, "otherIncome", OtherIncomeInputs)

\* the Partial<Deductions> payloads the deductions form passes to updateDeductions
DeductionPartials(deductions) ==
    ListEdits(deductions, "rrspContributions", RRSPInputs)
    \cup ListEdits(deductions, "charitableDonations", DonationInputs)
    \cup ListEdits(deductions, "medicalExpenses", MedicalInputs)
    \cup FieldEdits(deductions, "childcareExpenses", ChildcareInputs)
    \cup FieldEdits(deductions, "homeOfficeDays", HomeOfficeDaysInputs)
    \cup FieldEdits(deductions, "homeOfficeMethod", HomeOfficeMethods)
    \cup FieldEdits(deductions, "movingExpenses", MovingInputs)
    \cup FieldEdits(deductions, "studentLoanInterest", StudentLoanInputs)
    \cup FieldEdits(deductions, "professionalDues", ProfessionalDuesInputs)

(***************************************************************************)
(* Operations of TaxFilingProvider.                                        *)
(***************************************************************************)
Mutated ==
    /\ ret' = Null
    /\ calls' = 0

createFiling(year) ==
    /\ Len(filings) < MaxFilings
    /\ nEdits < MaxEdits
    /\ LET filing == createEmptyFiling(Len(filings) + 1, year)
           s1 == taxFilingReducer(State, [type |-> "SET_FILINGS",
                                          payload |-> Append(filings, filing)])
           s2 == taxFilingReducer(s1, [type |-> "SET_CURRENT_FILING", payload |-> filing])
       IN  Dispatch(s2)
    /\ nEdits' = nEdits + 1
    /\ Mutated
    /\ UNCHANGED <<matchVars, crossVars, ruleVars, extVars, pageVars>>

updateIncome(partial) ==
    /\ currentFiling # Null
    /\ nEdits < MaxEdits
    /\ Dispatch(taxFilingReducer(State,
          [type |-> "UPDATE_CURRENT_FILING",
           payload |-> [income |-> Merge(currentFiling.income, partial)]]))
    /\ nEdits' = nEdits + 1
    /\ Mutated
    /\ UNCHANGED <<matchVars, crossVars, ruleVars, extVars, pageVars>>

updateDeductions(partial) ==
    /\ currentFiling # Null
    /\ nEdits < MaxEdits
    /\ Dispatch(taxFilingReducer(State,
          [type |-> "UPDATE_CURRENT_FILING",
           payload |-> [deductions |-> Merge(currentFiling.deductions, partial)]]))
    /\ nEdits' = nEdits + 1
    /\ Mutated
    /\ UNCHANGED <<matchVars, crossVars, ruleVars, extVars, pageVars>>

\* a bug that caches the computed summary on the filing
CalculateSummaryCaching ==
    /\ calls < MaxCalls
    /\ ret' = calculateSummary(currentFiling)
    /\ calls' = calls + 1
    /\ IF currentFiling = Null THEN UNCHANGED <<filings, currentFiling>>
       ELSE Dispatch(taxFilingReducer(State,
               [type |-> "UPDATE_CURRENT_FILING",
                payload |-> [summary |-> calculateSummary(currentFiling)]]))
    /\ UNCHANGED <<nEdits, matchVars, crossVars, ruleVars, extVars, pageVars>>

CalculateSummary ==
    /\ calls < MaxCalls
    /\ ret' = calculateSummary(currentFiling)
    /\ calls' = calls + 1
    /\ UNCHANGED <<filings, currentFiling, nEdits, matchVars, crossVars, ruleVars, extVars, pageVars>>

Init ==
    /\ filings = <<>>
    /\ currentFiling = Null
    /\ ret = Null
    /\ calls = 0
    /\ nEdits = 0
    /\ extracted = Zero
    /\ entered = Zero
    /\ matched = FALSE
    /\ vmPc = "off"
    /\ xFiling = Null
    /\ xDocs = <<>>
    /\ xRet = Null
    /\ request = Null
    /\ staticSuggestions = Null
    /\ uuids = 0
    /\ pending = Null
    /\ redirect = Null
    /\ ExtOff

Next ==
    \/ \E year \in Years : createFiling(year)
    \/ \E partial \in IncomePartials(IF currentFiling = Null THEN EmptyIncome
                                     ELSE currentFiling.income) : updateIncome(partial)
    \/ \E partial \in DeductionPartials(IF currentFiling = Null THEN EmptyDeductions
                                        ELSE currentFiling.deductions) :
           updateDeductions(partial)
    \/ CalculateSummary

Spec == Init /\ [][Next]_vars

(***************************************************************************)
(* Cross-validation engine: the numeric tolerance primitive valuesMatch.   *)
(* Its callers pass Number(x) || 0 and parseFloat(x) || 0, so NaN never    *)
(* reaches it; the arguments are finite numbers, here with two decimals.   *)
(* diff / max <= 2 / 100 is evaluated only where max >= 100, and there it  *)
(* is diff * 100 <= max * 2.                                               *)
(***************************************************************************)
NUMERIC_TOLERANCE == Cents(1)
PERCENTAGE_TOLERANCE_PCT == 2

\* a bug that picks the regime from the extracted value alone
valuesMatchExtractedOnly(a, b) ==
    IF a = b THEN TRUE
    ELSE LET diff == DAbs(DSub(a, b))
         IN  IF DLt(a, DecOf(100))
             THEN DLeq(diff, NUMERIC_TOLERANCE)
             ELSE DLeq(DMulInt(diff, 100), DMulInt(DMax(a, b), PERCENTAGE_TOLERANCE_PCT))

\* a bug that uses < where the code uses <= for the relative tolerance
valuesMatchStrict(a, b) ==
    IF a = b THEN TRUE
    ELSE LET diff == DAbs(DSub(a, b))
         IN  IF DLt(DMax(a, b), DecOf(100))
             THEN DLeq(diff, NUMERIC_TOLERANCE)
             ELSE DLt(DMulInt(diff, 100), DMulInt(DMax(a, b), PERCENTAGE_TOLERANCE_PCT))

valuesMatch(a, b) ==
    IF a = b THEN TRUE
    ELSE LET diff == DAbs(DSub(a, b))
         IN  IF DLt(DMax(a, b), DecOf(100))
             THEN DLeq(diff, NUMERIC_TOLERANCE)
             ELSE DLeq(DMulInt(diff, 100), DMulInt(DMax(a, b), PERCENTAGE_TOLERANCE_PCT))

\* the amounts, in cents, the checks pass to valuesMatch
MatchCents ==
    {-500, 0, 1, 2, 5000, 5001, 5002, 9799, 9800, 9999, 10000, 10001, 10200, 10205,
     800000, 850000, 5000000, 5100000, 5102100}

ValuesMatchCall ==
    /\ vmPc = "idle"
    /\ matched' = valuesMatch(extracted, entered)
    /\ vmPc' = "done"
    /\ UNCHANGED <<extracted, entered, storeVars, crossVars, ruleVars, extVars, pageVars>>

\* the caller goes on to its next pair of values
ValuesMatchNext ==
    /\ vmPc = "done"
    /\ \E a \in MatchCents, b \in MatchCents :
          /\ extracted' = Cents(a)
          /\ entered' = Cents(b)
    /\ matched' = FALSE
    /\ vmPc' = "idle"
    /\ UNCHANGED <<storeVars, crossVars, ruleVars, extVars, pageVars>>

InitMatch ==
    /\ filings = <<>>
    /\ currentFiling = Null
    /\ ret = Null
    /\ calls = 0
    /\ nEdits = 0
    /\ extracted = Zero
    /\ entered = Zero
    /\ matched = FALSE
    /\ vmPc = "idle"
    /\ xFiling = Null
    /\ xDocs = <<>>
    /\ xRet = Null
    /\ request = Null
    /\ staticSuggestions = Null
    /\ uuids = 0
    /\ pending = Null
    /\ redirect = Null
    /\ ExtOff

NextMatch == ValuesMatchCall \/ ValuesMatchNext

SpecMatch == InitMatch /\ [][NextMatch]_vars

(***************************************************************************)
(* Cross-validation engine: extracted documents against the filing.        *)
(*                                                                         *)
(* An extracted field map is a function from the field names that are     *)
(* present to values; a value is a number, Num(n) with n a whole amount,   *)
(* or a string, Text(s).  A string is the sequence of its characters.      *)
(* A suggestion carries type, priority and title, the discrepancy lines    *)
(* of its description (each named by the label it starts with) and its     *)
(* estimatedImpact; the generated id and the fixed action fields are left  *)
(* out.                                                                    *)
(***************************************************************************)
Undefined == [undefined |-> TRUE]
NaN == [nan |-> TRUE]

Num(n) == [num |-> n]
Text(s) == [str |-> s]
IsNum(v) == "num" \in DOMAIN v
IsText(v) == "str" \in DOMAIN v

\* extractedData.<name>
Field(fields, name) == IF name \in DOMAIN fields THEN fields[name] ELSE Undefined

UpperCase ==
    <<"A", "B", "C", "D", "E", "F", "G", "H", "I", "J", "K", "L", "M",
      "N", "O", "P", "Q", "R", "S", "T", "U", "V", "W", "X", "Y", "Z">>
LowerCase ==
    <<"a", "b", "c", "d", "e", "f", "g", "h", "i", "j", "k", "l", "m",
      "n", "o", "p", "q", "r", "s", "t", "u", "v", "w", "x", "y", "z">>
Digits == <<"0", "1", "2", "3", "4", "5", "6", "7", "8", "9">>

IndexOf(c, alphabet) ==
    IF \E k \in 1..Len(alphabet) : alphabet[k] = c
    THEN CHOOSE k \in 1..Len(alphabet) : alphabet[k] = c
    ELSE 0

\* String.prototype.toLowerCase
toLowerCase(s) ==
    [i \in 1..Len(s) |->
        IF IndexOf(s[i], UpperCase) = 0 THEN s[i]
        ELSE LowerCase[IndexOf(s[i], UpperCase)]]

\* String.prototype.includes
includes(s, t) ==
    \E i \in 0..(Len(s) - Len(t)) : SubSeq(s, i + 1, i + Len(t)) = t

RECURSIVE DigitsValue(_)
DigitsValue(s) ==
    IF s = <<>> THEN 0
    ELSE 10 * DigitsValue(SubSeq(s, 1, Len(s) - 1)) + (IndexOf(s[Len(s)], Digits) - 1)

RECURSIVE DigitsOf(_)
DigitsOf(n) ==
    IF n < 10 THEN <<Digits[n + 1]>>
    ELSE DigitsOf(n \div 10) \o <<Digits[(n % 10) + 1]>>

\* the longest prefix of s made of decimal digits
RECURSIVE DigitsPrefix(_)
DigitsPrefix(s) ==
    IF s = <<>> \/ IndexOf(Head(s), Digits) = 0 THEN <<>>
    ELSE <<Head(s)>> \o DigitsPrefix(Tail(s))

\* a bug that parses like parseFloat, which reads the leading digits of a string
NumberParseFloat(v) ==
    IF v = Undefined THEN NaN
    ELSE IF IsNum(v) THEN DecOf(v.num)
    ELSE IF DigitsPrefix(v.str) = <<>> THEN NaN
    ELSE DecOf(DigitsValue(DigitsPrefix(v.str)))

\* Number(v): a number is itself, undefined is NaN, the empty string is 0, a string
\* of decimal digits is its value and any other string of the model is NaN
Number(v) ==
    IF v = Undefined THEN NaN
    ELSE IF IsNum(v) THEN DecOf(v.num)
    ELSE IF v.str = <<>> THEN Zero
    ELSE IF \A i \in 1..Len(v.str) : IndexOf(v.str[i], Digits) # 0
         THEN DecOf(DigitsValue(v.str))
    ELSE NaN

\* Number(v) || 0
NumberOrZero(v) ==
    LET n == Number(v)
    IN  IF n = NaN \/ n = Zero THEN Zero ELSE n

\* String(v || '')
StringOrEmpty(v) ==
    IF v = Undefined THEN <<>>
    ELSE IF IsText(v) THEN v.str
    ELSE IF v.num = 0 THEN <<>>
    ELSE IF v.num < 0 THEN <<"-">> \o DigitsOf(-v.num)
    ELSE DigitsOf(v.num)

Suggestion(type, priority, title, lines, impact) ==
    [type |-> type, priority |-> priority, title |-> title, lines |-> lines,
     estimatedImpact |-> impact]

\* the score findMatchingT4 gives one slip
T4Score(extractedData, slip) ==
    LET extractedEmployer == toLowerCase(StringOrEmpty(Field(extractedData, "employerName")))
        enteredEmployer == toLowerCase(slip.employerName)
        extractedIncome == NumberOrZero(Field(extractedData, "employmentIncome"))
        extractedTax == NumberOrZero(Field(extractedData, "incomeTaxDeducted"))
    IN  (IF /\ extractedEmployer # <<>>
            /\ enteredEmployer # <<>>
            /\ \/ includes(extractedEmployer, enteredEmployer)
               \/ includes(enteredEmployer, extractedEmployer)
         THEN 3 ELSE 0)
        + (IF /\ DLt(Zero, extractedIncome)
              /\ valuesMatch(extractedIncome, DecOf(slip.employmentIncome))
           THEN 2 ELSE 0)
        + (IF /\ DLt(Zero, extractedTax)
              /\ valuesMatch(extractedTax, DecOf(slip.incomeTaxDeducted))
           THEN 2 ELSE 0)

\* the loop of findMatchingT4 over t4Slips[i..], entered with the best so far
RECURSIVE FindMatchingT4From(_, _, _, _)
FindMatchingT4From(extractedData, t4Slips, i, best) ==
    IF i > Len(t4Slips) THEN best
    ELSE LET score == T4Score(extractedData, t4Slips[i])
         IN  FindMatchingT4From(extractedData, t4Slips, i + 1,
                IF score > best.matchScore
                THEN [slip |-> t4Slips[i], matchScore |-> score]
                ELSE best)

findMatchingT4(extractedData, t4Slips) ==
    FindMatchingT4From(extractedData, t4Slips, 1, [slip |-> Null, matchScore |-> 0])

\* a bug that compares the fields the document does not carry as well
T4DiscrepanciesUnchecked(extractedData, matchedSlip) ==
    LET Line(label, name) ==
            LET v == NumberOrZero(Field(extractedData, name))
            IN  IF ~valuesMatch(v, DecOf(matchedSlip[name]))
                THEN <<label>> ELSE <<>>
    IN  Line("Employment income", "employmentIncome")
        \o Line("Tax deducted", "incomeTaxDeducted")
        \o Line("CPP contributions", "cppContributions")
        \o Line("EI premiums", "eiPremiums")

\* the discrepancy lines validateT4 collects against the matched slip
T4Discrepancies(extractedData, matchedSlip) ==
    LET Line(label, name) ==
            LET v == NumberOrZero(Field(extractedData, name))
            IN  IF DLt(Zero, v) /\ ~valuesMatch(v, DecOf(matchedSlip[name]))
                THEN <<label>> ELSE <<>>
    IN  Line("Employment income", "employmentIncome")
        \o Line("Tax deducted", "incomeTaxDeducted")
        \o Line("CPP contributions", "cppContributions")
        \o Line("EI premiums", "eiPremiums")

\* the slip Array.prototype.find returns, Null for undefined
Find(slips, P(_)) ==
    IF \E i \in 1..Len(slips) : P(slips[i])
    THEN slips[CHOOSE i \in 1..Len(slips) :
                  P(slips[i]) /\ \A j \in 1..(i - 1) : ~P(slips[j])]
    ELSE Null

validateT4(extractedData, filing) ==
    LET found == findMatchingT4(extractedData, filing.income.t4Slips)
        extractedIncome == NumberOrZero(Field(extractedData, "employmentIncome"))
    IN  IF found.matchScore >= 3 /\ found.slip # Null
        THEN LET discrepancies == T4Discrepancies(extractedData, found.slip)
             IN  IF Len(discrepancies) > 0
                 THEN <<Suggestion("validation_error", "high",
                                   "T4 Data Mismatch Detected", discrepancies, Null)>>
                 ELSE <<>>
        ELSE IF DLt(Zero, extractedIncome) /\ Len(filing.income.t4Slips) > 0
        THEN LET Similar(slip) == valuesMatch(extractedIncome, DecOf(slip.employmentIncome))
                 similarIncomeSlip == Find(filing.income.t4Slips, Similar)
             IN  IF similarIncomeSlip # Null
                 THEN <<Suggestion("warning", "medium", "Possible Duplicate T4", <<>>, Null)>>
                 ELSE <<Suggestion("info", "low", "New T4 Detected", <<>>, Null)>>
        ELSE <<>>

\* a bug that treats a document without a matching slip as a mismatch
validateT5ReportUnmatched(extractedData, filing) ==
    LET extractedDividends == NumberOrZero(Field(extractedData, "actualDividends"))
        extractedInterest ==
            NumberOrZero(Field(extractedData, "interestFromCanadianSources"))
        totalExtracted == DAdd(extractedDividends, extractedInterest)
        Matches(slip) ==
            valuesMatch(totalExtracted,
                        DecOf(slip.actualDividends + slip.interestFromCanadianSources))
        matchedSlip == Find(filing.income.t5Slips, Matches)
        Line(label, v, name) ==
            IF DLt(Zero, v) /\ ~valuesMatch(v, DecOf(matchedSlip[name]))
            THEN <<label>> ELSE <<>>
    IN  IF totalExtracted = Zero THEN <<>>
        ELSE IF matchedSlip # Null
        THEN LET discrepancies ==
                     Line("Dividends", extractedDividends, "actualDividends")
                     \o Line("Interest", extractedInterest, "interestFromCanadianSources")
             IN  IF Len(discrepancies) > 0
                 THEN <<Suggestion("validation_error", "high",
                                   "T5 Data Mismatch Detected", discrepancies, Null)>>
                 ELSE <<>>
        ELSE <<Suggestion("validation_error", "high", "T5 Data Mismatch Detected",
                          <<"Dividends", "Interest">>, Null)>>

validateT5(extractedData, filing) ==
    LET extractedDividends == NumberOrZero(Field(extractedData, "actualDividends"))
        extractedInterest ==
            NumberOrZero(Field(extractedData, "interestFromCanadianSources"))
        totalExtracted == DAdd(extractedDividends, extractedInterest)
        Matches(slip) ==
            valuesMatch(totalExtracted,
                        DecOf(slip.actualDividends + slip.interestFromCanadianSources))
        matchedSlip == Find(filing.income.t5Slips, Matches)
        Line(label, v, name) ==
            IF DLt(Zero, v) /\ ~valuesMatch(v, DecOf(matchedSlip[name]))
            THEN <<label>> ELSE <<>>
    IN  IF totalExtracted = Zero THEN <<>>
        ELSE IF matchedSlip # Null
        THEN LET discrepancies ==
                     Line("Dividends", extractedDividends, "actualDividends")
                     \o Line("Interest", extractedInterest, "interestFromCanadianSources")
             IN  IF Len(discrepancies) > 0
                 THEN <<Suggestion("validation_error", "high",
                                   "T5 Data Mismatch Detected", discrepancies, Null)>>
                 ELSE <<>>
        ELSE <<>>

\* list.reduce((sum, x) => sum + x[name], 0)
RECURSIVE SumField(_, _)
SumField(list, name) ==
    IF list = <<>> THEN 0 ELSE Head(list)[name] + SumField(Tail(list), name)

\* a bug that never looks for the contribution among those already entered
validateRRSPUnmatched(extractedData, filing) ==
    LET extractedAmount == NumberOrZero(Field(extractedData, "contributionAmount"))
        totalEntered == SumField(filing.deductions.rrspContributions, "contributionAmount")
    IN  IF extractedAmount = Zero THEN <<>>
        ELSE IF totalEntered > 0
        THEN <<Suggestion("info", "medium", "Additional RRSP Contribution Found", <<>>,
                          DMulRate(extractedAmount, 2500))>>
        ELSE IF totalEntered = 0
        THEN <<Suggestion("missing_deduction", "high", "RRSP Contribution Not Claimed",
                          <<>>, DMulRate(extractedAmount, 2500))>>
        ELSE <<>>

validateRRSP(extractedData, filing) ==
    LET extractedAmount == NumberOrZero(Field(extractedData, "contributionAmount"))
        totalEntered == SumField(filing.deductions.rrspContributions, "contributionAmount")
        Matches(c) == valuesMatch(extractedAmount, DecOf(c.contributionAmount))
        matchedContribution == Find(filing.deductions.rrspContributions, Matches)
    IN  IF extractedAmount = Zero THEN <<>>
        ELSE IF matchedContribution = Null /\ totalEntered > 0
        THEN <<Suggestion("info", "medium", "Additional RRSP Contribution Found", <<>>,
                          DMulRate(extractedAmount, 2500))>>
        ELSE IF matchedContribution = Null /\ totalEntered = 0
        THEN <<Suggestion("missing_deduction", "high", "RRSP Contribution Not Claimed",
                          <<>>, DMulRate(extractedAmount, 2500))>>
        ELSE <<>>

validateDonation(extractedData, filing) ==
    LET extractedAmount == NumberOrZero(Field(extractedData, "donationAmount"))
        totalEntered == SumField(filing.deductions.charitableDonations, "donationAmount")
        Matches(d) == valuesMatch(extractedAmount, DecOf(d.donationAmount))
        matchedDonation == Find(filing.deductions.charitableDonations, Matches)
    IN  IF extractedAmount = Zero THEN <<>>
        ELSE IF matchedDonation = Null /\ totalEntered = 0
        THEN <<Suggestion("missing_deduction", "high", "Donation Not Claimed", <<>>, Null)>>
        ELSE <<>>

\* discrepancies.filter(keep)
RECURSIVE Filter(_, _)
Filter(list, keep) ==
    IF list = <<>> THEN <<>>
    ELSE (IF keep[1] THEN <<list[1]>> ELSE <<>>) \o Filter(Tail(list), Tail(keep))

\* a bug that reports a document as invalid as soon as it has any suggestion
crossCheckDocumentAnyInvalid(doc, filing) ==
    LET discrepancies ==
            CASE doc.documentType = "t4" -> validateT4(doc.fields, filing)
              [] doc.documentType = "t5" -> validateT5(doc.fields, filing)
              [] doc.documentType = "rrsp-receipt" -> validateRRSP(doc.fields, filing)
              [] doc.documentType = "donation-receipt" ->
                     validateDonation(doc.fields, filing)
              [] OTHER -> <<>>
    IN  [isValid |-> Len(discrepancies) = 0, discrepancies |-> discrepancies,
         matches |-> <<>>]

crossCheckDocument(doc, filing) ==
    LET discrepancies ==
            CASE doc.documentType = "t4" -> validateT4(doc.fields, filing)
              [] doc.documentType = "t5" -> validateT5(doc.fields, filing)
              [] doc.documentType = "rrsp-receipt" -> validateRRSP(doc.fields, filing)
              [] doc.documentType = "donation-receipt" ->
                     validateDonation(doc.fields, filing)
              [] OTHER -> <<>>
        errors == Filter(discrepancies,
                         [i \in 1..Len(discrepancies) |->
                             discrepancies[i].type = "validation_error"])
    IN  [isValid |-> Len(errors) = 0, discrepancies |-> discrepancies, matches |-> <<>>]

\* allSuggestions after the loop over extractedDocuments[i..]
RECURSIVE AllSuggestionsFrom(_, _, _)
AllSuggestionsFrom(extractedDocuments, filing, i) ==
    IF i > Len(extractedDocuments) THEN <<>>
    ELSE crossCheckDocument(extractedDocuments[i], filing).discrepancies
         \o AllSuggestionsFrom(extractedDocuments, filing, i + 1)

\* a bug that keeps the last suggestion of a title instead of the first
RECURSIVE DedupeKeepLast(_, _)
DedupeKeepLast(allSuggestions, seen) ==
    IF allSuggestions = <<>> THEN <<>>
    ELSE LET s == Head(allSuggestions)
             rest == Tail(allSuggestions)
         IN  IF \E i \in 1..Len(rest) : rest[i].title = s.title
             THEN DedupeKeepLast(rest, seen)
             ELSE <<s>> \o DedupeKeepLast(rest, seen)

\* allSuggestions.filter with the Set of the titles seen so far
RECURSIVE DedupeByTitle(_, _)
DedupeByTitle(allSuggestions, seen) ==
    IF allSuggestions = <<>> THEN <<>>
    ELSE LET s == Head(allSuggestions)
         IN  IF s.title \in seen THEN DedupeByTitle(Tail(allSuggestions), seen)
             ELSE <<s>> \o DedupeByTitle(Tail(allSuggestions), seen \cup {s.title})

validateAllDocuments(extractedDocuments, filing) ==
    DedupeByTitle(AllSuggestionsFrom(extractedDocuments, filing, 1), {})

(***************************************************************************)
(* Inputs of the cross-validation engine: the slips already entered on the *)
(* filing and the documents an extraction produced.                        *)
(***************************************************************************)
MaxSlips == 2
MaxDocs == 3

AcmeCorp == <<"A", "c", "m", "e", " ", "C", "o", "r", "p">>
AcmeCorporation == AcmeCorp \o <<"o", "r", "a", "t", "i", "o", "n">>
ACME == <<"A", "C", "M", "E">>
Bolt == <<"B", "o", "l", "t">>
NotANumber == <<"N", "/", "A">>
FiftyThousand == <<"5", "0", "0", "0", "0">>
AmountWithCurrency == <<"8", "5", "0", "0", " ", "C", "A", "D">>

\* sequences over S of length 0..n
SeqsUpTo(S, n) == UNION {[1..k -> S] : k \in 0..n}

\* entered T4 slips; the second one is a slip just added by the income form,
\* its employer name not yet typed
XT4Slips ==
    {[employerName |-> AcmeCorporation, employmentIncome |-> 50000,
      incomeTaxDeducted |-> 8000, cppContributions |-> 3000, eiPremiums |-> 1000],
     [employerName |-> <<>>, employmentIncome |-> 60000,
      incomeTaxDeducted |-> 9000, cppContributions |-> 0, eiPremiums |-> 0],
     [employerName |-> Bolt, employmentIncome |-> 50000,
      incomeTaxDeducted |-> 8500, cppContributions |-> 3000, eiPremiums |-> 1000]}

XT5Slips ==
    T5Inputs \cup {[actualDividends |-> 50, interestFromCanadianSources |-> 70,
                    capitalGainsDividends |-> 0]}

XDonations == {d \in DonationInputs : d.donationAmount <= 200}

\* entered RRSP contributions; the one of amount 0 is a contribution just added
\* by the deductions form, its amount not yet typed
XRRSPContributions == RRSPInputs \cup {[contributionAmount |-> 0]}

\* the filings passed to the engine: one kind of record entered, up to MaxSlips of it
XFilings ==
    LET base == createEmptyFiling(1, 2024)
    IN  {[base EXCEPT !.income.t4Slips = l] : l \in SeqsUpTo(XT4Slips, MaxSlips)}
        \cup {[base EXCEPT !.income.t5Slips = l] : l \in SeqsUpTo(XT5Slips, MaxSlips)}
        \cup {[base EXCEPT !.deductions.rrspContributions = l] :
                 l \in SeqsUpTo(XRRSPContributions, MaxSlips)}
        \cup {[base EXCEPT !.deductions.charitableDonations = l] :
                 l \in SeqsUpTo(XDonations, MaxSlips)}

\* a field map with the undefined entries left out
Present(rec) == [k \in {n \in DOMAIN rec : rec[n] # Undefined} |-> rec[k]]

Doc(type, rec) == [documentType |-> type, fields |-> Present(rec)]

T4Docs ==
    {Doc("t4", [employerName |-> n, employmentIncome |-> i, incomeTaxDeducted |-> t,
                cppContributions |-> c, eiPremiums |-> e]) :
        n \in {Undefined, Text(AcmeCorp), Text(ACME), Text(<<>>)},
        i \in {Undefined, Num(50000), Num(70000), Text(NotANumber), Text(FiftyThousand)},
        t \in {Undefined, Num(8500), Num(8000), Text(AmountWithCurrency)},
        c \in {Undefined, Num(3500)},
        e \in {Undefined, Num(1000)}}

T5Docs ==
    {Doc("t5", [actualDividends |-> d, interestFromCanadianSources |-> i]) :
        d \in {Undefined, Num(100), Num(70), Text(NotANumber)},
        i \in {Undefined, Num(20), Num(50), Num(0)}}

RRSPDocs ==
    {Doc("rrsp-receipt", [contributionAmount |-> a]) :
        a \in {Undefined, Num(5000), Num(5050), Num(7000), Text(NotANumber), Text(<<>>)}}

DonationDocs ==
    {Doc("donation-receipt", [donationAmount |-> a]) :
        a \in {Undefined, Num(100), Num(500), Text(NotANumber)}}

OtherDocs ==
    {Doc("t4a", [pensionIncome |-> Num(1000)]),
     Doc("medical-receipt", [amount |-> Num(500)]),
     Doc("other", [employmentIncome |-> Num(50000)])}

\* the documents of a multi-document validation
ListDocs ==
    {Doc("rrsp-receipt", [contributionAmount |-> Num(5000)]),
     Doc("rrsp-receipt", [contributionAmount |-> Num(7000)]),
     Doc("donation-receipt", [donationAmount |-> Num(500)]),
     Doc("t4", [employerName |-> Text(AcmeCorp), employmentIncome |-> Num(50000),
                incomeTaxDeducted |-> Num(8500)])}

XDocLists ==
    {<<d>> : d \in T4Docs \cup T5Docs \cup RRSPDocs \cup DonationDocs \cup OtherDocs}
    \cup SeqsUpTo(ListDocs, MaxDocs)

\* a caller passes one of the documents to crossCheckDocument
CrossCheckDocument(i) ==
    /\ xRet = Null
    /\ i \in 1..Len(xDocs)
    /\ xRet' = [op |-> "crossCheckDocument", i |-> i,
                value |-> crossCheckDocument(xDocs[i], xFiling)]
    /\ UNCHANGED <<xFiling, xDocs, storeVars, matchVars, ruleVars, extVars, pageVars>>

\* a caller passes all the documents to validateAllDocuments
ValidateAllDocuments ==
    /\ xRet = Null
    /\ xRet' = [op |-> "validateAllDocuments", i |-> 0,
                value |-> validateAllDocuments(xDocs, xFiling)]
    /\ UNCHANGED <<xFiling, xDocs, storeVars, matchVars, ruleVars, extVars, pageVars>>

InitCross ==
    /\ filings = <<>>
    /\ currentFiling = Null
    /\ ret = Null
    /\ calls = 0
    /\ nEdits = 0
    /\ extracted = Zero
    /\ entered = Zero
    /\ matched = FALSE
    /\ vmPc = "off"
    /\ xFiling \in XFilings
    /\ xDocs \in XDocLists
    /\ xRet = Null
    /\ request = Null
    /\ staticSuggestions = Null
    /\ uuids = 0
    /\ pending = Null
    /\ redirect = Null
    /\ ExtOff

NextCross ==
    \/ \E i \in 1..MaxDocs : CrossCheckDocument(i)
    \/ ValidateAllDocuments

SpecCross == InitCross /\ [][NextCross]_vars

(***************************************************************************)
(* Static suggestion rules (src/lib/suggestions/rules.ts).  The totals of  *)
(* a SuggestionsRequest are whole amounts.  A rule returns a suggestion or *)
(* Null; a ratio a / b > r / 100 with b > 0 is a * 100 > b * r.            *)
(***************************************************************************)
RRSP_LIMIT_2024 == 31560
RRSP_RATE_PCT == 18

checkRRSPOpportunity(data) ==
    LET totalIncome == data.income.t4Total + data.income.t4aTotal
                       + data.income.selfEmploymentIncome
        uncapped == DMulRate(DecOf(totalIncome), RRSP_RATE_PCT * 100)
        maxContribution == IF DLt(uncapped, DecOf(RRSP_LIMIT_2024)) THEN uncapped
                           ELSE DecOf(RRSP_LIMIT_2024)
    IN  IF totalIncome > 30000 /\ data.deductions.rrspTotal = 0
        THEN Suggestion("missing_deduction", "high", "RRSP Contribution Opportunity",
                        <<>>, DMulRate(maxContribution, 2500))
        ELSE Null

checkHomeOfficeOpportunity(data) ==
    IF data.income.t4Total > 0 /\ data.deductions.homeOfficeDays = 0
    THEN Suggestion("info", "medium", "Home Office Deduction", <<>>,
                    DMulRate(DecOf(250 * 2), 2500))
    ELSE Null

\* a bug that divides without looking at the income first (x / 0 is Infinity for
\* x > 0 and NaN for x = 0 in the program)
checkHighDeductionRatioUnguarded(data) ==
    LET totalIncome == data.income.t4Total + data.income.t4aTotal + data.income.t4eTotal
                       + data.income.t5Total + data.income.t3Total
                       + data.income.selfEmploymentIncome + data.income.otherIncome
        totalDeductions == data.deductions.rrspTotal + data.deductions.donationsTotal
                           + data.deductions.medicalTotal
                           + data.deductions.childcareExpenses
                           + data.deductions.movingExpenses
                           + data.deductions.professionalDues
    IN  IF (totalIncome = 0 /\ totalDeductions > 0)
           \/ (totalIncome > 0 /\ totalDeductions * 10 > totalIncome * 4)
        THEN Suggestion("warning", "high", "High Deduction Ratio", <<>>, Null)
        ELSE Null

checkHighDeductionRatio(data) ==
    LET totalIncome == data.income.t4Total + data.income.t4aTotal + data.income.t4eTotal
                       + data.income.t5Total + data.income.t3Total
                       + data.income.selfEmploymentIncome + data.income.otherIncome
        totalDeductions == data.deductions.rrspTotal + data.deductions.donationsTotal
                           + data.deductions.medicalTotal
                           + data.deductions.childcareExpenses
                           + data.deductions.movingExpenses
                           + data.deductions.professionalDues
    IN  IF totalIncome > 0 /\ totalDeductions * 10 > totalIncome * 4
        THEN Suggestion("warning", "high", "High Deduction Ratio", <<>>, Null)
        ELSE Null

checkMedicalExpenseThreshold(data) ==
    LET totalIncome == data.income.t4Total + data.income.t4aTotal
                       + data.income.selfEmploymentIncome
        \* medicalTotal < Math.min(totalIncome * 0.03, 2635)
        below == /\ data.deductions.medicalTotal * 100 < totalIncome * 3
                 /\ data.deductions.medicalTotal < 2635
    IN  IF data.deductions.medicalTotal > 0 /\ below
        THEN Suggestion("info", "low", "Medical Expense Threshold", <<>>, Null)
        ELSE Null

checkDonationCredit(data) ==
    IF data.deductions.donationsTotal > 0 /\ data.deductions.donationsTotal < 200
    THEN Suggestion("optimization", "low", "Donation Credit Tip", <<>>, Null)
    ELSE Null

checkProfessionalDues(data) ==
    IF data.income.t4Total > 60000 /\ data.deductions.professionalDues = 0
    THEN Suggestion("info", "low", "Professional Dues", <<>>, Null)
    ELSE Null

checkStudentLoanInterest(data) ==
    LET totalDeductions == data.deductions.rrspTotal + data.deductions.donationsTotal
                           + data.deductions.studentLoanInterest
    IN  IF /\ data.income.t4Total > 30000
           /\ totalDeductions < 1000
           /\ data.deductions.studentLoanInterest = 0
        THEN Suggestion("info", "low", "Student Loan Interest", <<>>, Null)
        ELSE Null

checkProvinceSet(data) ==
    IF data.province = ""
    THEN Suggestion("validation_error", "high", "Province Required", <<>>, Null)
    ELSE Null

\* what each rule of the list `rules` returns, in the order of the list
rules(data) ==
    <<checkProvinceSet(data), checkRRSPOpportunity(data),
      checkHomeOfficeOpportunity(data), checkHighDeductionRatio(data),
      checkMedicalExpenseThreshold(data), checkDonationCredit(data),
      checkProfessionalDues(data), checkStudentLoanInterest(data)>>

priorityOrder == [high |-> 0, medium |-> 1, low |-> 2]

\* a bug in the sort that puts an element before its equals
RECURSIVE InsertBeforeEquals(_, _)
InsertBeforeEquals(sorted, s) ==
    IF sorted = <<>> THEN <<s>>
    ELSE IF priorityOrder[Head(sorted).priority] - priorityOrder[s.priority] >= 0
         THEN <<s>> \o sorted
         ELSE <<Head(sorted)>> \o InsertBeforeEquals(Tail(sorted), s)

\* Array.prototype.sort is stable: an element goes behind the elements the
\* comparator does not put after it
RECURSIVE InsertSorted(_, _)
InsertSorted(sorted, s) ==
    IF sorted = <<>> THEN <<s>>
    ELSE IF priorityOrder[Head(sorted).priority] - priorityOrder[s.priority] > 0
         THEN <<s>> \o sorted
         ELSE <<Head(sorted)>> \o InsertSorted(Tail(sorted), s)

RECURSIVE SortByPriority(_)
SortByPriority(list) ==
    IF list = <<>> THEN <<>>
    ELSE InsertSorted(SortByPriority(SubSeq(list, 1, Len(list) - 1)), list[Len(list)])

getStaticSuggestions(data) ==
    LET results == rules(data)
        pushed == Filter(results, [k \in 1..Len(results) |-> results[k] # Null])
    IN  SortByPriority(pushed)

\* the requests of the model
Requests ==
    [province : {"", "ON"},
     hasSpouse : {FALSE},
     hasDependents : {FALSE},
     income : [t4Total : {0, 40000, 70000}, t4aTotal : {0}, t4eTotal : {0, 20000},
               t5Total : {0}, t3Total : {0}, selfEmploymentIncome : {0, 35000},
               otherIncome : {0}],
     deductions : [rrspTotal : {0, 5000}, donationsTotal : {0, 100, 500},
                   medicalTotal : {0, 500, 3000}, childcareExpenses : {0, 40000},
                   homeOfficeDays : {0, 100}, homeOfficeMethod : {"flat-rate"},
                   movingExpenses : {0}, studentLoanInterest : {0, 600},
                   professionalDues : {0, 450}]]

\* the suggestions route calls getStaticSuggestions on the request it received
GetStaticSuggestions ==
    /\ staticSuggestions = Null
    /\ staticSuggestions' = [list |-> getStaticSuggestions(request)]
    /\ UNCHANGED <<request, storeVars, matchVars, crossVars, pageVars, extVars>>

InitRules ==
    /\ filings = <<>>
    /\ currentFiling = Null
    /\ ret = Null
    /\ calls = 0
    /\ nEdits = 0
    /\ extracted = Zero
    /\ entered = Zero
    /\ matched = FALSE
    /\ vmPc = "off"
    /\ xFiling = Null
    /\ xDocs = <<>>
    /\ xRet = Null
    /\ request \in Requests
    /\ staticSuggestions = Null
    /\ uuids = 0
    /\ pending = Null
    /\ redirect = Null
    /\ ExtOff

NextRules == GetStaticSuggestions

SpecRules == InitRules /\ [][NextRules]_vars

(***************************************************************************)
(* The filing store as the pages drive it: the dashboard, the wizard       *)
(* layout, the forms and the submit page call the provider's operations.   *)
(* A uuid or a timestamp is the number of the draw that produced it.       *)
(* handleNetfileSubmit awaits two responses before it calls submitFiling;  *)
(* it then calls the submitFiling of the render it was started in, whose   *)
(* state.currentFiling is the filing of that render (pending.closure),     *)
(* while the reducer applies the dispatched update to the current state.   *)
(* One handleNetfileSubmit is in flight at a time.                         *)
(***************************************************************************)
MaxUuids == 4

\* new Date().getFullYear() - 1
TaxYear == 2024

FreshUuid == uuids + 1

StoreFrame ==
    /\ Mutated
    /\ UNCHANGED <<matchVars, crossVars, ruleVars, extVars>>

\* createFiling with the id uuidv4() draws
createFilingFresh(year) ==
    /\ uuids < MaxUuids
    /\ LET filing == createEmptyFiling(FreshUuid, year)
           s1 == taxFilingReducer(State, [type |-> "SET_FILINGS",
                                          payload |-> Append(filings, filing)])
           s2 == taxFilingReducer(s1, [type |-> "SET_CURRENT_FILING", payload |-> filing])
       IN  Dispatch(s2)
    /\ uuids' = uuids + 1

loadFilingStep(id) ==
    LET WithId(f) == f.id = id
        filing == Find(filings, WithId)
    IN  /\ IF filing # Null
           THEN Dispatch(taxFilingReducer(State, [type |-> "SET_CURRENT_FILING",
                                                  payload |-> filing]))
           ELSE UNCHANGED <<filings, currentFiling>>
        /\ UNCHANGED uuids

\* the dashboard's New Filing button
handleStartFiling ==
    /\ LET Open(f) == f.year = TaxYear /\ f.status # "submitted"
           existingFiling == Find(filings, Open)
       IN  IF existingFiling # Null THEN loadFilingStep(existingFiling.id)
           ELSE createFilingFresh(TaxYear)
    /\ StoreFrame
    /\ UNCHANGED <<nEdits, pending, redirect>>

\* the wizard layout's effect on a page under /file
WizardLayoutEffect ==
    /\ currentFiling = Null
    /\ createFilingFresh(TaxYear)
    /\ StoreFrame
    /\ UNCHANGED <<nEdits, pending, redirect>>

\* handleContinueFiling and handleViewFiling of the dashboard
loadFiling(id) ==
    /\ loadFilingStep(id)
    /\ StoreFrame
    /\ UNCHANGED <<nEdits, pending, redirect>>

\* a bug that marks every edited filing as in progress
updatePersonalInfoAlwaysInProgress(info) ==
    /\ currentFiling # Null
    /\ nEdits < MaxEdits
    /\ Dispatch(taxFilingReducer(State,
          [type |-> "UPDATE_CURRENT_FILING",
           payload |-> [personalInfo |-> Merge(currentFiling.personalInfo, info),
                        status |-> "in-progress"]]))
    /\ nEdits' = nEdits + 1
    /\ StoreFrame
    /\ UNCHANGED pageVars

updatePersonalInfo(info) ==
    /\ currentFiling # Null
    /\ nEdits < MaxEdits
    /\ Dispatch(taxFilingReducer(State,
          [type |-> "UPDATE_CURRENT_FILING",
           payload |-> [personalInfo |-> Merge(currentFiling.personalInfo, info),
                        status |-> IF currentFiling.status = "not-started"
                                   THEN "in-progress" ELSE currentFiling.status]]))
    /\ nEdits' = nEdits + 1
    /\ StoreFrame
    /\ UNCHANGED pageVars

addDocument(document) ==
    /\ currentFiling # Null
    /\ nEdits < MaxEdits
    /\ \A k \in 1..Len(currentFiling.documents) : currentFiling.documents[k].id # document.id
    /\ Dispatch(taxFilingReducer(State,
          [type |-> "UPDATE_CURRENT_FILING",
           payload |-> [documents |-> Append(currentFiling.documents, document)]]))
    /\ nEdits' = nEdits + 1
    /\ StoreFrame
    /\ UNCHANGED pageVars

removeDocument(id) ==
    /\ currentFiling # Null
    /\ nEdits < MaxEdits
    /\ Dispatch(taxFilingReducer(State,
          [type |-> "UPDATE_CURRENT_FILING",
           payload |-> [documents |->
              Filter(currentFiling.documents,
                     [k \in 1..Len(currentFiling.documents) |->
                         currentFiling.documents[k].id # id])]]))
    /\ nEdits' = nEdits + 1
    /\ StoreFrame
    /\ UNCHANGED pageVars

\* submitFiling of the render whose state.currentFiling was closure
submitFiling(closure) ==
    IF closure = Null THEN UNCHANGED <<filings, currentFiling, uuids>>
    ELSE /\ Dispatch(taxFilingReducer(State,
               [type |-> "UPDATE_CURRENT_FILING",
                payload |-> [status |-> "submitted",
                             summary |-> calculateSummary(closure),
                             confirmationNumber |-> [year |-> TaxYear + 1,
                                                     uuid |-> FreshUuid],
                             submittedAt |-> [time |-> FreshUuid]]]))
         /\ uuids' = uuids + 1

\* the submit page shows its buttons for a current filing that is not submitted,
\* and disables them while a submission is in flight
NetfileSubmitStart ==
    /\ currentFiling # Null
    /\ currentFiling.status # "submitted"
    /\ pending = Null
    /\ pending' = [closure |-> currentFiling]
    /\ redirect' = Null
    /\ UNCHANGED <<storeVars, uuids, matchVars, crossVars, ruleVars, extVars>>

\* the responses arrive: validation or submission failed ("rejected"), success
\* with the provider's confirmation number ("confirmed"), or success without one
\* ("unconfirmed"), the only case in which the page calls submitFiling
Responses == {"rejected", "confirmed", "unconfirmed"}

\* the confirmation number in a response of the provider
ProviderConfirmation == [cra |-> TaxYear]

NetfileSubmitFinish(response) ==
    /\ pending # Null
    /\ CASE response = "unconfirmed" ->
               /\ uuids < MaxUuids
               /\ submitFiling(pending.closure)
               /\ redirect' = [confirmation |-> [year |-> TaxYear + 1, uuid |-> FreshUuid]]
         [] response = "confirmed" ->
               /\ redirect' = [confirmation |-> ProviderConfirmation]
               /\ UNCHANGED <<filings, currentFiling, uuids>>
         [] OTHER -> UNCHANGED <<filings, currentFiling, uuids, redirect>>
    /\ pending' = Null
    /\ StoreFrame
    /\ UNCHANGED nEdits

deleteFiling(id) ==
    /\ \E k \in 1..Len(filings) : filings[k].id = id
    /\ LET newFilings == Filter(filings, [k \in 1..Len(filings) |-> filings[k].id # id])
           s1 == taxFilingReducer(State, [type |-> "SET_FILINGS", payload |-> newFilings])
           s2 == IF currentFiling # Null /\ currentFiling.id = id
                 THEN taxFilingReducer(s1, [type |-> "SET_CURRENT_FILING", payload |-> Null])
                 ELSE s1
       IN  Dispatch(s2)
    /\ StoreFrame
    /\ UNCHANGED <<nEdits, pageVars>>

\* the values the forms and the upload pass to the operations
PersonalInfoInputs == {[firstName |-> "Ada"]}
StoreIncomeInputs == {[otherIncome |-> 55867]}
StoreDeductionInputs == {[childcareExpenses |-> 3000]}
DocumentInputs == {[id |-> "doc-1", type |-> "t4"]}

InitStore ==
    /\ filings = <<>>
    /\ currentFiling = Null
    /\ ret = Null
    /\ calls = 0
    /\ nEdits = 0
    /\ extracted = Zero
    /\ entered = Zero
    /\ matched = FALSE
    /\ vmPc = "off"
    /\ xFiling = Null
    /\ xDocs = <<>>
    /\ xRet = Null
    /\ request = Null
    /\ staticSuggestions = Null
    /\ uuids = 0
    /\ pending = Null
    /\ redirect = Null
    /\ ExtOff

NextStore ==
    \/ handleStartFiling
    \/ WizardLayoutEffect
    \/ \E id \in 1..MaxUuids : loadFiling(id)
    \/ \E info \in PersonalInfoInputs : updatePersonalInfo(info)
    \/ \E partial \in StoreIncomeInputs : updateIncome(partial)
    \/ \E partial \in StoreDeductionInputs : updateDeductions(partial)
    \/ \E document \in DocumentInputs : addDocument(document)
    \/ \E document \in DocumentInputs : removeDocument(document.id)
    \/ NetfileSubmitStart
    \/ \E response \in Responses : NetfileSubmitFinish(response)
    \/ \E id \in 1..MaxUuids : deleteFiling(id)

SpecStore == InitStore /\ [][NextStore]_vars

(***************************************************************************)
(* The filing store and the browser's storage.  A page load starts the     *)
(* program from initialState and mounts the provider; on a page under      *)
(* /file it mounts the wizard layout in the same commit.  React runs the   *)
(* effects of a commit child first, each with the state of the render it   *)
(* belongs to (here initialState), and applies the dispatched actions in   *)
(* the order they were dispatched.  The auto-save effect runs after every  *)
(* render that changed state.filings, so it is part of each step.          *)
(***************************************************************************)
initialState == [filings |-> <<>>, currentFiling |-> Null]

\* the auto-save effect after a step that dispatched to state.filings
AutoSave ==
    storedFilings' = IF filings' # filings /\ Len(filings') > 0 THEN filings'
                     ELSE storedFilings

MountFrame ==
    /\ Mutated
    /\ UNCHANGED <<nEdits, matchVars, crossVars, ruleVars, pending, redirect, notMount>>

\* the provider's load effect, dispatching onto state
LoadEffect(state, currentFilingId) ==
    LET WithId(f) == f.id = currentFilingId
        filing == Find(storedFilings, WithId)
        s1 == taxFilingReducer(state, [type |-> "SET_FILINGS", payload |-> storedFilings])
    IN  IF currentFilingId # 0 /\ filing # Null
        THEN taxFilingReducer(s1, [type |-> "SET_CURRENT_FILING", payload |-> filing])
        ELSE s1

\* the browser loads /dashboard: the provider mounts and loads the storage
LoadDashboardPage ==
    /\ Dispatch(LoadEffect(initialState, storedCurrentId))
    /\ page' = "dashboard"
    /\ UNCHANGED <<uuids, storedFilings, storedCurrentId>>
    /\ MountFrame

\* the browser loads a page under /file: the wizard layout's effect sees no
\* current filing and calls the createFiling of the first render, then the
\* provider's load effect runs
LoadFilePage ==
    /\ uuids < MaxUuids
    /\ LET filing == createEmptyFiling(FreshUuid, TaxYear)
           s1 == taxFilingReducer(initialState,
                    [type |-> "SET_FILINGS",
                     payload |-> Append(initialState.filings, filing)])
           s2 == taxFilingReducer(s1, [type |-> "SET_CURRENT_FILING", payload |-> filing])
       IN  /\ Dispatch(LoadEffect(s2, filing.id))
           /\ storedCurrentId' = filing.id
    /\ uuids' = uuids + 1
    /\ page' = "file"
    /\ AutoSave
    /\ MountFrame

\* New Filing on the dashboard, then the wizard opens
StartFiling ==
    /\ page = "dashboard"
    /\ LET Open(f) == f.year = TaxYear /\ f.status # "submitted"
           existingFiling == Find(filings, Open)
       IN  IF existingFiling # Null THEN loadFilingStep(existingFiling.id)
           ELSE createFilingFresh(TaxYear)
    /\ storedCurrentId' = currentFiling'.id
    /\ page' = "file"
    /\ AutoSave
    /\ MountFrame

\* Continue on a filing of the dashboard's list, then the wizard opens
ContinueFiling(id) ==
    /\ page = "dashboard"
    /\ \E k \in 1..Len(filings) : filings[k].id = id
    /\ loadFilingStep(id)
    /\ storedCurrentId' = id
    /\ page' = "file"
    /\ AutoSave
    /\ MountFrame

\* the delete button of a filing of the dashboard's list
DeleteFiling(id) ==
    /\ page = "dashboard"
    /\ \E k \in 1..Len(filings) : filings[k].id = id
    /\ LET newFilings == Filter(filings, [k \in 1..Len(filings) |-> filings[k].id # id])
           s1 == taxFilingReducer(State, [type |-> "SET_FILINGS", payload |-> newFilings])
           s2 == IF currentFiling # Null /\ currentFiling.id = id
                 THEN taxFilingReducer(s1, [type |-> "SET_CURRENT_FILING", payload |-> Null])
                 ELSE s1
       IN  Dispatch(s2)
    /\ storedCurrentId' = IF currentFiling # Null /\ currentFiling.id = id THEN 0
                          ELSE storedCurrentId
    /\ AutoSave
    /\ UNCHANGED <<uuids, page>>
    /\ MountFrame

\* the personal information form of the wizard
EditPersonalInfo(info) ==
    /\ page = "file"
    /\ currentFiling # Null
    /\ nEdits < MaxEdits
    /\ Dispatch(taxFilingReducer(State,
          [type |-> "UPDATE_CURRENT_FILING",
           payload |-> [personalInfo |-> Merge(currentFiling.personalInfo, info),
                        status |-> IF currentFiling.status = "not-started"
                                   THEN "in-progress" ELSE currentFiling.status]]))
    /\ nEdits' = nEdits + 1
    /\ AutoSave
    /\ Mutated
    /\ UNCHANGED <<uuids, storedCurrentId, page, matchVars, crossVars, ruleVars, pending,
                   redirect, notMount>>

\* the home button of the wizard
GoToDashboard ==
    /\ page = "file"
    /\ page' = "dashboard"
    /\ UNCHANGED <<storeVars, matchVars, crossVars, ruleVars, pageVars,
                   storedFilings, storedCurrentId, notMount>>

MountPersonalInfoInputs == {[firstName |-> "Ada"], [firstName |-> "Grace"]}

InitMount ==
    /\ filings = <<>>
    /\ currentFiling = Null
    /\ ret = Null
    /\ calls = 0
    /\ nEdits = 0
    /\ extracted = Zero
    /\ entered = Zero
    /\ matched = FALSE
    /\ vmPc = "off"
    /\ xFiling = Null
    /\ xDocs = <<>>
    /\ xRet = Null
    /\ request = Null
    /\ staticSuggestions = Null
    /\ uuids = 0
    /\ pending = Null
    /\ redirect = Null
    /\ storedFilings = <<>>
    /\ storedCurrentId = 0
    /\ page = "off"
    /\ UploadOff
    /\ ProviderOff
    /\ ChatOff

NextMount ==
    \/ LoadDashboardPage
    \/ LoadFilePage
    \/ StartFiling
    \/ \E id \in 1..MaxUuids : ContinueFiling(id)
    \/ \E id \in 1..MaxUuids : DeleteFiling(id)
    \/ \E info \in MountPersonalInfoInputs : EditPersonalInfo(info)
    \/ GoToDashboard

SpecMount == InitMount /\ [][NextMount]_vars

(***************************************************************************)
(* The document uploader of the documents page.  handleUpload is an async  *)
(* function: it runs up to its first await, and each time saveDocument     *)
(* resolves it runs up to the next one.  Its onDocumentAdded is the        *)
(* addDocument of the render in which the upload was started, whose        *)
(* state.currentFiling is the filing of that render (uploading.closure);   *)
(* the reducer applies each dispatched update to the current state.  A     *)
(* file is modelled by its name.                                           *)
(***************************************************************************)
MaxFiles == 3

FileNames == {"t4.pdf", "receipt.jpg"}

UploadFrame ==
    /\ Mutated
    /\ UNCHANGED <<nEdits, matchVars, crossVars, ruleVars, pending, redirect, notUpload>>

\* a handleUpload call is awaiting saveDocument
isUploading == IF uploading = Null THEN FALSE ELSE uploading.pc = "saving"

\* the document handleUpload builds for a file
NewDocument(file) == [id |-> FreshUuid, name |-> file, type |-> "t4"]

\* the wizard is opened on a new filing
OpenWizard ==
    /\ currentFiling = Null
    /\ createFilingFresh(TaxYear)
    /\ UNCHANGED uploadVars
    /\ UploadFrame

\* a valid file is dropped on the uploader or chosen in its file input
handleFileSelect(file) ==
    /\ currentFiling # Null
    /\ Len(pendingFiles) < MaxFiles
    /\ pendingFiles' = Append(pendingFiles, file)
    /\ UNCHANGED <<filings, currentFiling, uuids, uploading>>
    /\ UploadFrame

removePendingFile(index) ==
    /\ currentFiling # Null
    /\ index \in 1..Len(pendingFiles)
    /\ pendingFiles' = RemoveAt(pendingFiles, index)
    /\ UNCHANGED <<filings, currentFiling, uuids, uploading>>
    /\ UploadFrame

\* addDocument of the render whose state.currentFiling was closure
addDocumentOf(closure, document) ==
    IF closure = Null THEN UNCHANGED <<filings, currentFiling>>
    ELSE Dispatch(taxFilingReducer(State,
            [type |-> "UPDATE_CURRENT_FILING",
             payload |-> [documents |-> Append(closure.documents, document)]]))

\* the Upload button: handleUpload up to its first await
handleUpload ==
    /\ currentFiling # Null
    /\ pendingFiles # <<>>
    /\ ~isUploading
    /\ uuids + Len(pendingFiles) <= MaxUuids
    /\ uploading' = [pc |-> "saving", closure |-> currentFiling, files |-> pendingFiles,
                     next |-> 1, document |-> NewDocument(pendingFiles[1]),
                     created |-> <<>>]
    /\ uuids' = uuids + 1
    /\ UNCHANGED <<filings, currentFiling, pendingFiles>>
    /\ UploadFrame

\* saveDocument resolves: handleUpload adds the document and goes on to the next
\* file's await, or past the loop to its end
SaveDocumentResolved ==
    /\ isUploading
    /\ addDocumentOf(uploading.closure, uploading.document)
    /\ IF uploading.next < Len(uploading.files)
       THEN /\ uploading' = [uploading EXCEPT
                                !.next = @ + 1,
                                !.document = NewDocument(uploading.files[uploading.next + 1]),
                                !.created = Append(@, uploading.document)]
            /\ uuids' = uuids + 1
            /\ UNCHANGED pendingFiles
       ELSE /\ uploading' = [uploading EXCEPT
                                !.pc = "done",
                                !.created = Append(@, uploading.document)]
            /\ pendingFiles' = <<>>
            /\ UNCHANGED uuids
    /\ UploadFrame

\* saveDocument rejects: handleUpload reports the failure and ends
SaveDocumentRejected ==
    /\ isUploading
    /\ uploading' = [uploading EXCEPT !.pc = "failed"]
    /\ UNCHANGED <<filings, currentFiling, uuids, pendingFiles>>
    /\ UploadFrame

InitUpload ==
    /\ filings = <<>>
    /\ currentFiling = Null
    /\ ret = Null
    /\ calls = 0
    /\ nEdits = 0
    /\ extracted = Zero
    /\ entered = Zero
    /\ matched = FALSE
    /\ vmPc = "off"
    /\ xFiling = Null
    /\ xDocs = <<>>
    /\ xRet = Null
    /\ request = Null
    /\ staticSuggestions = Null
    /\ uuids = 0
    /\ pending = Null
    /\ redirect = Null
    /\ MountOff
    /\ pendingFiles = <<>>
    /\ uploading = Null
    /\ ProviderOff
    /\ ChatOff

NextUpload ==
    \/ OpenWizard
    \/ \E file \in FileNames : handleFileSelect(file)
    \/ \E index \in 1..MaxFiles : removePendingFile(index)
    \/ handleUpload
    \/ SaveDocumentResolved
    \/ SaveDocumentRejected

SpecUpload == InitUpload /\ [][NextUpload]_vars

(***************************************************************************)
(* The mock NETFILE provider.  mockSubmissions is a Map, modelled as the   *)
(* sequence of its entries in insertion order.  submitFiling waits for     *)
(* its delay before it does anything; the calls wait the same time, so     *)
(* they resume in the order they were made.  A confirmation number         *)
(* CRA-<taxYear>-<uuid> is the pair of the tax year and the draw.          *)
(***************************************************************************)
MaxSubmits == 2

\* new Date().getFullYear()
CurrentYear == TaxYear + 1

MapHas(map, key) == \E i \in 1..Len(map) : map[i].key = key

MapGet(map, key) ==
    IF MapHas(map, key)
    THEN map[CHOOSE i \in 1..Len(map) : map[i].key = key].value
    ELSE Undefined

MapSet(map, key, value) ==
    IF MapHas(map, key)
    THEN [i \in 1..Len(map) |->
             IF map[i].key = key THEN [key |-> key, value |-> value] ELSE map[i]]
    ELSE Append(map, [key |-> key, value |-> value])

validateFiling(netfileRequest) ==
    LET errors ==
            (IF netfileRequest.personalInfo.sin = ""
                \/ Len(netfileRequest.personalInfo.sin) # 11
             THEN <<"Invalid SIN format">> ELSE <<>>)
            \o (IF netfileRequest.personalInfo.firstName = ""
                   \/ netfileRequest.personalInfo.lastName = ""
                THEN <<"Name is required">> ELSE <<>>)
            \o (IF DLt(netfileRequest.calculated.totalIncome, Zero)
                THEN <<"Total income cannot be negative">> ELSE <<>>)
            \o (IF netfileRequest.taxYear < 2020 \/ netfileRequest.taxYear > CurrentYear
                THEN <<"Invalid tax year">> ELSE <<>>)
    IN  [valid |-> Len(errors) = 0, errors |-> errors]

\* a bug that reports a stored submission as submitted whatever its status
checkStatusAsSubmitted(confirmationNumber) ==
    LET submission == MapGet(mockSubmissions, confirmationNumber)
    IN  IF submission = Undefined THEN [filingId |-> "", status |-> "error"]
        ELSE [filingId |-> submission.request.filingId,
              confirmationNumber |-> confirmationNumber,
              status |-> "submitted"]

\* what checkStatus returns once its delay is over (the dates are left out)
checkStatus(confirmationNumber) ==
    LET submission == MapGet(mockSubmissions, confirmationNumber)
    IN  IF submission = Undefined THEN [filingId |-> "", status |-> "error"]
        ELSE [filingId |-> submission.request.filingId,
              confirmationNumber |-> confirmationNumber,
              status |-> submission.status]

ProviderFrame ==
    UNCHANGED <<storeVars, matchVars, crossVars, ruleVars, pending, redirect, notProvider>>

\* a caller invokes submitFiling, which starts its delay
SubmitFilingCall(netfileRequest) ==
    /\ Len(submitCalls) + Len(submitResponses) < MaxSubmits
    /\ submitCalls' = Append(submitCalls, netfileRequest)
    /\ UNCHANGED <<mockSubmissions, acceptanceTimers, submitResponses, statusResponse,
                   uuids>>
    /\ ProviderFrame

\* the delay of the oldest call is over: submitFiling validates, stores, sets the
\* acceptance timer and returns
SubmitFilingResume ==
    /\ submitCalls # <<>>
    /\ LET netfileRequest == Head(submitCalls)
           validation == validateFiling(netfileRequest)
           confirmationNumber == [cra |-> netfileRequest.taxYear, uuid |-> FreshUuid]
       IN  IF ~validation.valid
           THEN /\ submitResponses' =
                      Append(submitResponses,
                             [request |-> netfileRequest,
                              response |->
                                 [success |-> FALSE, status |-> "rejected",
                                  errors |-> [idx \in 1..Len(validation.errors) |->
                                                [code |-> idx,
                                                 message |-> validation.errors[idx]]]]])
                /\ UNCHANGED <<mockSubmissions, acceptanceTimers, uuids>>
           ELSE /\ mockSubmissions' =
                      MapSet(mockSubmissions, confirmationNumber,
                             [request |-> netfileRequest, status |-> "submitted",
                              confirmationNumber |-> confirmationNumber])
                /\ acceptanceTimers' = acceptanceTimers \cup {confirmationNumber}
                /\ uuids' = uuids + 1
                /\ submitResponses' =
                      Append(submitResponses,
                             [request |-> netfileRequest,
                              response |->
                                 [success |-> TRUE,
                                  confirmationNumber |-> confirmationNumber,
                                  status |-> "submitted"]])
    /\ submitCalls' = Tail(submitCalls)
    /\ UNCHANGED statusResponse
    /\ ProviderFrame

\* the acceptance timer of a submission fires
AcceptanceTimer(confirmationNumber) ==
    /\ confirmationNumber \in acceptanceTimers
    /\ LET submission == MapGet(mockSubmissions, confirmationNumber)
       IN  mockSubmissions' =
              IF submission # Undefined
              THEN MapSet(mockSubmissions, confirmationNumber,
                          [submission EXCEPT !.status = "accepted"])
              ELSE mockSubmissions
    /\ acceptanceTimers' = acceptanceTimers \ {confirmationNumber}
    /\ UNCHANGED <<submitCalls, submitResponses, statusResponse, uuids>>
    /\ ProviderFrame

\* a caller's checkStatus call returns
CheckStatus(confirmationNumber) ==
    /\ statusResponse' = [query |-> confirmationNumber,
                          response |-> checkStatus(confirmationNumber)]
    /\ UNCHANGED <<mockSubmissions, acceptanceTimers, submitCalls, submitResponses, uuids>>
    /\ ProviderFrame

\* the requests passed to the provider: a valid one and one per validation rule
ProviderRequests ==
    LET valid == [filingId |-> 1, taxYear |-> TaxYear,
                  personalInfo |-> [sin |-> "123-456-789", firstName |-> "Ada",
                                    lastName |-> "Byron"],
                  calculated |-> [totalIncome |-> DecOf(50000)]]
    IN  {valid,
         [valid EXCEPT !.filingId = 2],
         [valid EXCEPT !.personalInfo.sin = "123456789"],
         [valid EXCEPT !.personalInfo.lastName = ""],
         [valid EXCEPT !.calculated.totalIncome = DecOf(-1)],
         [valid EXCEPT !.taxYear = CurrentYear + 1]}

\* the confirmation numbers passed to checkStatus
StatusQueries == {[cra |-> TaxYear, uuid |-> k] : k \in 1..(MaxSubmits + 1)}

InitProvider ==
    /\ filings = <<>>
    /\ currentFiling = Null
    /\ ret = Null
    /\ calls = 0
    /\ nEdits = 0
    /\ extracted = Zero
    /\ entered = Zero
    /\ matched = FALSE
    /\ vmPc = "off"
    /\ xFiling = Null
    /\ xDocs = <<>>
    /\ xRet = Null
    /\ request = Null
    /\ staticSuggestions = Null
    /\ uuids = 0
    /\ pending = Null
    /\ redirect = Null
    /\ MountOff
    /\ UploadOff
    /\ mockSubmissions = <<>>
    /\ acceptanceTimers = {}
    /\ submitCalls = <<>>
    /\ submitResponses = <<>>
    /\ statusResponse = Null
    /\ ChatOff

NextProvider ==
    \/ \E r \in ProviderRequests : SubmitFilingCall(r)
    \/ SubmitFilingResume
    \/ \E c \in StatusQueries : AcceptanceTimer(c)
    \/ \E c \in StatusQueries : CheckStatus(c)

\* a timer that is set fires
SpecProvider ==
    /\ InitProvider
    /\ [][NextProvider]_vars
    /\ \A c \in StatusQueries : WF_vars(AcceptanceTimer(c))

(***************************************************************************)
(* The chat (ChatContext).  sendMessage aborts the call in flight, adds    *)
(* the user's message and the assistant's placeholder, posts the history   *)
(* and reads the response stream line by line.  The route sends content    *)
(* events and then a done or an error event, and closes the stream.  An    *)
(* aborted call returns from its catch without a dispatch.  chatCall keeps *)
(* the call after it has ended, with errorEvent telling whether the stream *)
(* delivered an event of type error.                                       *)
(***************************************************************************)
MaxSends == 2
MaxEvents == 2

ApologyText == "Sorry, I encountered an error. Please try again."

chatReducer(state, action) ==
    CASE action.type = "ADD_MESSAGE" ->
           [state EXCEPT !.messages = Append(state.messages, action.payload)]
      [] action.type = "UPDATE_MESSAGE" ->
           [state EXCEPT !.messages =
               [i \in 1..Len(state.messages) |->
                   LET m == state.messages[i]
                   IN  IF m.id = action.payload.id
                       THEN [id |-> m.id, role |-> m.role,
                             content |-> action.payload.content, isStreaming |-> FALSE]
                       ELSE m]]
      [] action.type = "SET_STREAMING" -> [state EXCEPT !.isStreaming = action.payload]
      [] action.type = "SET_ERROR" ->
           [state EXCEPT !.error = action.payload, !.isStreaming = FALSE]
      [] OTHER -> state

\* the state after the dispatches of one step, applied in order
RECURSIVE chatDispatch(_, _)
chatDispatch(state, actions) ==
    IF actions = <<>> THEN state
    ELSE chatDispatch(chatReducer(state, Head(actions)), Tail(actions))

\* the dispatches of sendMessage's outer catch for an error that is not an abort
chatCaught(message, assistantId) ==
    <<[type |-> "SET_ERROR", payload |-> [message |-> message]],
      [type |-> "UPDATE_MESSAGE",
       payload |-> [id |-> assistantId, content |-> ApologyText]]>>

chatReading == IF chatCall = Null THEN FALSE ELSE chatCall.pc = "reading"
chatFetching == IF chatCall = Null THEN FALSE ELSE chatCall.pc = "fetching"

ChatFrame ==
    UNCHANGED <<storeVars, matchVars, crossVars, ruleVars, pending, redirect, notChat>>

\* sendMessage up to its fetch; the call in flight, if any, is aborted
SendMessage(content) ==
    /\ uuids < 2 * MaxSends
    /\ LET userMessage == [id |-> uuids + 1, role |-> "user", content |-> content]
           assistantId == uuids + 2
           assistantMessage == [id |-> assistantId, role |-> "assistant",
                                content |-> "", isStreaming |-> TRUE]
       IN  /\ chat' = chatDispatch(chat,
                         <<[type |-> "ADD_MESSAGE", payload |-> userMessage],
                           [type |-> "SET_STREAMING", payload |-> TRUE],
                           [type |-> "SET_ERROR", payload |-> Null],
                           [type |-> "ADD_MESSAGE", payload |-> assistantMessage]>>)
           /\ chatCall' = [pc |-> "fetching", assistantId |-> assistantId,
                           fullContent |-> "", events |-> 0, closing |-> FALSE,
                           errorEvent |-> FALSE]
    /\ uuids' = uuids + 2
    /\ ChatFrame

\* the fetch settles: a response with a body, a response that is not ok, a
\* response without a body, or a rejection
FetchSettled(outcome) ==
    /\ chatFetching
    /\ IF outcome = "ok"
       THEN /\ chatCall' = [chatCall EXCEPT !.pc = "reading"]
            /\ UNCHANGED chat
       ELSE /\ chat' = chatDispatch(chat, chatCaught(outcome, chatCall.assistantId))
            /\ chatCall' = [chatCall EXCEPT !.pc = "caught"]
    /\ UNCHANGED uuids
    /\ ChatFrame

\* reader.read() returns a chunk holding one data line
ReadEvent(data) ==
    /\ chatReading
    /\ ~chatCall.closing
    /\ chatCall.events < MaxEvents
    /\ LET isContent == IF data.type = "content" THEN data.content # "" ELSE FALSE
           fullContent == IF isContent THEN chatCall.fullContent \o data.content
                          ELSE chatCall.fullContent
       IN  /\ chat' = IF isContent
                      THEN chatDispatch(chat,
                              <<[type |-> "UPDATE_MESSAGE",
                                 payload |-> [id |-> chatCall.assistantId,
                                              content |-> fullContent]]>>)
                      ELSE chat
           /\ chatCall' = [chatCall EXCEPT
                              !.fullContent = fullContent,
                              !.events = @ + 1,
                              !.closing = data.type \in {"done", "error"},
                              !.errorEvent = @ \/ data.type = "error"]
    /\ UNCHANGED uuids
    /\ ChatFrame

\* reader.read() returns done
ReadDone ==
    /\ chatReading
    /\ chat' = chatDispatch(chat, <<[type |-> "SET_STREAMING", payload |-> FALSE]>>)
    /\ chatCall' = [chatCall EXCEPT !.pc = "done"]
    /\ UNCHANGED uuids
    /\ ChatFrame

\* reader.read() rejects: the connection dropped before the stream was closed
ReadRejected ==
    /\ chatReading
    /\ ~chatCall.closing
    /\ chat' = chatDispatch(chat, chatCaught("network error", chatCall.assistantId))
    /\ chatCall' = [chatCall EXCEPT !.pc = "caught"]
    /\ UNCHANGED uuids
    /\ ChatFrame

\* the data lines of a response: content, empty content, error, done, and a line
\* JSON.parse rejects
ChatEvents ==
    {[type |-> "content", content |-> "Yes."], [type |-> "content", content |-> ""],
     [type |-> "error", error |-> "Overloaded"], [type |-> "done"],
     [type |-> "unparsable"]}

FetchOutcomes == {"ok", "HTTP error! status: 500", "No response body", "Failed to fetch"}

ChatInputs == {"What is an RRSP?"}

InitChat ==
    /\ filings = <<>>
    /\ currentFiling = Null
    /\ ret = Null
    /\ calls = 0
    /\ nEdits = 0
    /\ extracted = Zero
    /\ entered = Zero
    /\ matched = FALSE
    /\ vmPc = "off"
    /\ xFiling = Null
    /\ xDocs = <<>>
    /\ xRet = Null
    /\ request = Null
    /\ staticSuggestions = Null
    /\ uuids = 0
    /\ pending = Null
    /\ redirect = Null
    /\ MountOff
    /\ UploadOff
    /\ ProviderOff
    /\ chat = [messages |-> <<>>, isStreaming |-> FALSE, error |-> Null]
    /\ chatCall = Null

NextChat ==
    \/ \E content \in ChatInputs : SendMessage(content)
    \/ \E outcome \in FetchOutcomes : FetchSettled(outcome)
    \/ \E data \in ChatEvents : ReadEvent(data)
    \/ ReadDone
    \/ ReadRejected

SpecChat == InitChat /\ [][NextChat]_vars

(***************************************************************************)
(* Properties.  ret holds the summary calculateSummary returned for        *)
(* currentFiling whenever it is not Null.  The expected values are written *)
(* in integers: whole units, halves of a unit, or 1/FRAC of a unit.        *)
(***************************************************************************)
RECURSIVE ISum(_)
ISum(s) == IF s = <<>> THEN 0 ELSE s[1] + ISum(Tail(s))
IReduce(F(_), xs) == ISum([i \in 1..Len(xs) |-> F(xs[i])])
IMax(a, b) == IF a < b THEN b ELSE a
ToFrac(d) == d.w * FRAC + d.f
Dec3(w, thousandths) == [w |-> w, f |-> thousandths * (FRAC \div 1000)]
Returned == ret # Null /\ currentFiling # Null
BasicCreditFrac == 15705 * 15000

\* C1: for every filing, the returned summary has
\* totalTax = max(0, federalTax + provincialTax - totalCredits), so totalTax >= 0,
\* and refundOrOwing = totalPaid - totalTax.
C1_TotalTaxAndRefund ==
    ret # Null =>
        LET gross == DSub(DAdd(ret.federalTax, ret.provincialTax), ret.totalCredits)
        IN  /\ ret.totalTax = (IF gross.w < 0 THEN Zero ELSE gross)
            /\ ret.totalTax.w >= 0
            /\ DAdd(ret.refundOrOwing, ret.totalTax) = ret.totalPaid

\* the floor is at work: the taxes are positive and the credits exceed them
C1_Witness ==
    /\ Returned
    /\ ret.totalTax = Zero
    /\ DLt(Zero, ret.federalTax)
    /\ DLt(DAdd(ret.federalTax, ret.provincialTax), ret.totalCredits)
    /\ DLt(Zero, ret.totalPaid)

OnlyEmployment(cf) ==
    /\ cf.income = [EmptyIncome EXCEPT !.t4Slips = cf.income.t4Slips]
    /\ cf.deductions = EmptyDeductions

\* C2: a filing whose only data is one employment slip (50000, withheld 8000) gets
\* 50000 / 50000 / 7500 / 2525 / 2355.75 / 7669.25 / 8000 / 330.75; and any filing of
\* employment slips only, with summed income I <= 51446 and summed withheld tax W, gets
\* totalIncome = taxableIncome = I, federalTax = 0.15 I, provincialTax = 0.0505 I,
\* totalCredits = 15705 * 0.15 and totalPaid = W.
C2_EmploymentOnly ==
    (Returned /\ OnlyEmployment(currentFiling)) =>
        LET slips == currentFiling.income.t4Slips
            I == IReduce(LAMBDA slip : slip.employmentIncome, slips)
            W == IReduce(LAMBDA slip : slip.incomeTaxDeducted, slips)
        IN  /\ I <= 51446 =>
                /\ ret.totalIncome = DecOf(I)
                /\ ret.taxableIncome = DecOf(I)
                /\ ToFrac(ret.federalTax) = I * 15000
                /\ ToFrac(ret.provincialTax) = I * 5050
                /\ ToFrac(ret.totalCredits) = BasicCreditFrac
                /\ ret.totalPaid = DecOf(W)
            /\ slips = <<[employmentIncome |-> 50000, incomeTaxDeducted |-> 8000]>> =>
                /\ ret.totalIncome = DecOf(50000)
                /\ ret.totalDeductions = Zero
                /\ ret.taxableIncome = DecOf(50000)
                /\ ret.federalTax = DecOf(7500)
                /\ ret.provincialTax = DecOf(2525)
                /\ ret.totalCredits = Dec3(2355, 750)
                /\ ret.totalTax = Dec3(7669, 250)
                /\ ret.totalPaid = DecOf(8000)
                /\ ret.refundOrOwing = Dec3(330, 750)

\* two employment slips whose incomes sum to the first provincial threshold
C2_Witness ==
    /\ Returned
    /\ OnlyEmployment(currentFiling)
    /\ Len(currentFiling.income.t4Slips) = 2
    /\ ret.totalIncome = DecOf(51446)
    /\ ret.totalPaid = DecOf(8300)

\* C3: at every federal threshold (55867, 111733, 173205, 246752) and every provincial
\* threshold (51446, 102894, 150000, 220000) the tax computed for taxable income exactly
\* T equals the next bracket's fixed base amount: no jump at a boundary.
C3_BracketContinuity ==
    ret # Null =>
        /\ ret.taxableIncome = DecOf(55867) => ret.federalTax = DecOf(8380)
        /\ ret.taxableIncome = DecOf(111733) => ret.federalTax = DecOf(19833)
        /\ ret.taxableIncome = DecOf(173205) => ret.federalTax = DecOf(35816)
        /\ ret.taxableIncome = DecOf(246752) => ret.federalTax = DecOf(57144)
        /\ ret.taxableIncome = DecOf(51446) => ret.provincialTax = DecOf(2598)
        /\ ret.taxableIncome = DecOf(102894) => ret.provincialTax = DecOf(7307)
        /\ ret.taxableIncome = DecOf(150000) => ret.provincialTax = DecOf(12563)
        /\ ret.taxableIncome = DecOf(220000) => ret.provincialTax = DecOf(21075)

\* C23: federal and provincial tax never decrease when the taxable income grows:
\* the taxes of a computed summary are at least those of every lower whole
\* taxable income (here the bracket thresholds) and at most those of every
\* higher one.
C23_TaxMonotone ==
    ret # Null =>
        \A t \in OtherIncomeInputs :
            /\ DLeq(DecOf(t), ret.taxableIncome) =>
                  /\ DLeq(FederalTax(DecOf(t)), ret.federalTax)
                  /\ DLeq(ProvincialTax(DecOf(t)), ret.provincialTax)
            /\ DLeq(ret.taxableIncome, DecOf(t)) =>
                  /\ DLeq(ret.federalTax, FederalTax(DecOf(t)))
                  /\ DLeq(ret.provincialTax, ProvincialTax(DecOf(t)))

\* C24: the request transformFilingToNetfile builds from a filing and its
\* summary carries the summary's totalPaid as income.totalTaxWithheld.
C24_TaxWithheldAgrees ==
    Returned =>
        transformFilingToNetfile(currentFiling, ret).income.totalTaxWithheld
            = ret.totalPaid

\* C4: federalTax is 0 for t <= 0, 0.15 t up to 55867, 8380 + 0.205 (t - 55867) up to
\* 111733, 19833 + 0.26 (t - 111733) up to 173205, 35816 + 0.29 (t - 173205) up to
\* 246752, and 57144 + 0.33 (t - 246752) above; 70000 gives 11277.265.
C4_FederalBrackets ==
    ret # Null =>
        LET t == ret.taxableIncome
            tax == ret.federalTax
            Above(T) == DSub(t, DecOf(T))
            In(lo, hi) == DLt(DecOf(lo), t) /\ DLeq(t, DecOf(hi))
        IN  /\ DLeq(t, Zero) => tax = Zero
            /\ In(0, 55867) => tax = DMulRate(t, 1500)
            /\ In(55867, 111733) => tax = DAdd(DecOf(8380), DMulRate(Above(55867), 2050))
            /\ In(111733, 173205) => tax = DAdd(DecOf(19833), DMulRate(Above(111733), 2600))
            /\ In(173205, 246752) => tax = DAdd(DecOf(35816), DMulRate(Above(173205), 2900))
            /\ DLt(DecOf(246752), t) => tax = DAdd(DecOf(57144), DMulRate(Above(246752), 3300))
            /\ t = DecOf(70000) => tax = Dec3(11277, 265)

C4_Witness ==
    /\ Returned
    /\ ret.taxableIncome = DecOf(70000)
    /\ ret.federalTax = Dec3(11277, 265)

\* twice the total income the claim states, in whole units
ExpectedIncomeHalves(income) ==
    2 * ( IReduce(LAMBDA slip : slip.employmentIncome, income.t4Slips)
        + IReduce(LAMBDA slip : slip.pensionIncome + slip.lumpSumPayments
                      + slip.selfEmployedCommissions + slip.otherIncome, income.t4aSlips)
        + IReduce(LAMBDA slip : slip.eiBenefits, income.t4eSlips)
        + IReduce(LAMBDA slip : slip.actualDividends + slip.interestFromCanadianSources
                      + slip.capitalGainsDividends, income.t5Slips)
        + IReduce(LAMBDA slip : slip.eligibleDividends + slip.otherDividends
                      + slip.otherIncome, income.t3Slips)
        + IReduce(LAMBDA slip : slip.rrspIncome, income.t4rspSlips)
        + income.selfEmploymentIncome + income.otherIncome )
    + IReduce(LAMBDA slip : slip.capitalGains, income.t3Slips)
    + IReduce(LAMBDA slip : IMax(0, slip.proceeds - slip.costBase), income.t5008Slips)

IsGain(slip) == slip.proceeds > slip.costBase

\* C5: totalIncome is the sum over the slip lists by the type-specific formulas (trust
\* capital gains and securities gains at one half, a securities gain floored at zero
\* per slip) plus self-employment and other income; a securities slip with
\* proceeds <= cost base changes nothing and offsets no other slip's gain.
C5_TotalIncome ==
    Returned =>
        LET income == currentFiling.income
            gainsOnly == [currentFiling EXCEPT
                            !.income.t5008Slips = SelectSeq(@, IsGain)]
        IN  /\ ret.totalIncome.f \in {0, FRAC \div 2}
            /\ 2 * ret.totalIncome.w + (IF ret.totalIncome.f = 0 THEN 0 ELSE 1)
                  = ExpectedIncomeHalves(income)
            /\ ret.totalIncome = calculateSummary(gainsOnly).totalIncome

\* a securities gain of 500 next to a securities loss of 2000: half the gain counts
C5_Witness ==
    /\ Returned
    /\ \E i, j \in 1..Len(currentFiling.income.t5008Slips) :
          /\ IsGain(currentFiling.income.t5008Slips[i])
          /\ ~IsGain(currentFiling.income.t5008Slips[j])
    /\ ret.totalIncome = DecOf(250)

ExpectedDeductions(deductions) ==
    IReduce(LAMBDA c : c.contributionAmount, deductions.rrspContributions)
    + deductions.childcareExpenses
    + (IF deductions.homeOfficeMethod = "flat-rate" THEN deductions.homeOfficeDays * 2 ELSE 0)
    + deductions.movingExpenses
    + deductions.professionalDues

\* C6: totalDeductions = retirement contributions + childcare + (days * 2 under the
\* flat-rate method, else 0) + moving + professional dues, and
\* taxableIncome = max(0, totalIncome - totalDeductions); student-loan interest,
\* donations and medical expenses change none of totalDeductions, taxableIncome,
\* federalTax and provincialTax.
C6_TotalDeductions ==
    Returned =>
        LET net == DSub(ret.totalIncome, ret.totalDeductions)
            without == calculateSummary([currentFiling EXCEPT
                          !.deductions.studentLoanInterest = 0,
                          !.deductions.charitableDonations = <<>>,
                          !.deductions.medicalExpenses = <<>>])
        IN  /\ ret.totalDeductions = DecOf(ExpectedDeductions(currentFiling.deductions))
            /\ ret.taxableIncome = (IF net.w < 0 THEN Zero ELSE net)
            /\ ret.totalDeductions = without.totalDeductions
            /\ ret.taxableIncome = without.taxableIncome
            /\ ret.federalTax = without.federalTax
            /\ ret.provincialTax = without.provincialTax

\* 100 home-office days under the flat-rate method deduct 200
C6_Witness ==
    /\ Returned
    /\ currentFiling.deductions.homeOfficeDays = 100
    /\ currentFiling.deductions.homeOfficeMethod = "flat-rate"
    /\ ret.totalDeductions = DecOf(200)

ExpectedDonationFrac(d) ==
    IF d.donationAmount <= 200
    THEN d.donationAmount * 15000
    ELSE 3000000 + (d.donationAmount - 200) * 29000

NoOtherCredits(cf) ==
    /\ cf.deductions.medicalExpenses = <<>>
    /\ cf.deductions.studentLoanInterest = 0
    /\ cf.income.t2202Slips = <<>>

\* C7: the donation credit is computed per record and summed: 0.15 a for a <= 200,
\* 30 + 0.29 (a - 200) above; one donation of 200 gives 30, one of 300 gives 59, two
\* of 200 give 60.  (With no medical expense, tuition slip or student-loan interest
\* the donation credit is totalCredits less the basic personal credit.)
C7_DonationCredit ==
    (Returned /\ NoOtherCredits(currentFiling)) =>
        LET donations == currentFiling.deductions.charitableDonations
            credit == ToFrac(ret.totalCredits) - BasicCreditFrac
            Amounts == [i \in 1..Len(donations) |-> donations[i].donationAmount]
        IN  /\ credit = IReduce(ExpectedDonationFrac, donations)
            /\ Amounts = <<200>> => credit = 30 * FRAC
            /\ Amounts = <<300>> => credit = 59 * FRAC
            /\ Amounts = <<200, 200>> => credit = 60 * FRAC

C7_Witness ==
    /\ Returned
    /\ NoOtherCredits(currentFiling)
    /\ Len(currentFiling.deductions.charitableDonations) = 2
    /\ \A i \in 1..2 : currentFiling.deductions.charitableDonations[i].donationAmount = 200
    /\ ret.totalCredits = Dec3(2415, 750)

ToCents(d) == d.w * 100 + d.f \div (FRAC \div 100)

\* C9: valuesMatch(x, x) is true, and valuesMatch(a, b) = valuesMatch(b, a).
C9_ReflexiveSymmetric ==
    vmPc = "done" =>
        /\ extracted = entered => matched
        /\ matched = valuesMatch(entered, extracted)

\* a pair, one value below 100 and one not, that matches in both orders
C9_Witness ==
    /\ vmPc = "done"
    /\ matched
    /\ DLt(extracted, DecOf(100))
    /\ ~DLt(entered, DecOf(100))
    /\ ToCents(entered) - ToCents(extracted) = 200

Checked(type) ==
    /\ xRet # Null
    /\ xRet.op = "crossCheckDocument"
    /\ xDocs[xRet.i].documentType = type

CheckedFields == xDocs[xRet.i].fields
CheckedSuggestions == xRet.value.discrepancies

\* the value of a numeric field of the document, 0 when it is not present
Amount(name) == NumberOrZero(Field(CheckedFields, name))
IsPresent(name) == DLt(Zero, Amount(name))

Range(s) == {s[i] : i \in 1..Len(s)}

\* the employer names of the document and of a slip contain one another, ignoring
\* case; nonEmpty asks in addition that neither name is empty
NamesContain(slip, nonEmpty) ==
    LET a == toLowerCase(StringOrEmpty(Field(CheckedFields, "employerName")))
        b == toLowerCase(slip.employerName)
    IN  /\ includes(a, b) \/ includes(b, a)
        /\ nonEmpty => (a # <<>> /\ b # <<>>)

C11Score(slip, nonEmpty) ==
    (IF NamesContain(slip, nonEmpty) THEN 3 ELSE 0)
    + (IF IsPresent("employmentIncome")
          /\ valuesMatch(Amount("employmentIncome"), DecOf(slip.employmentIncome))
       THEN 2 ELSE 0)
    + (IF IsPresent("incomeTaxDeducted")
          /\ valuesMatch(Amount("incomeTaxDeducted"), DecOf(slip.incomeTaxDeducted))
       THEN 2 ELSE 0)

\* the labels of the present fields that fail valuesMatch against the slip
C11Failing(slip) ==
    {f[1] : f \in {g \in {<<"Employment income", "employmentIncome">>,
                          <<"Tax deducted", "incomeTaxDeducted">>,
                          <<"CPP contributions", "cppContributions">>,
                          <<"EI premiums", "eiPremiums">>} :
                      /\ IsPresent(g[2])
                      /\ ~valuesMatch(Amount(g[2]), DecOf(slip[g[2]]))}}

\* some highest-scoring slip has a score of at least 3 and explains the result:
\* one validation_error/high suggestion listing exactly its failing fields, or
\* no suggestion when it has none
C11Confident(nonEmpty) ==
    LET slips == xFiling.income.t4Slips
        IsBest(i) == \A j \in 1..Len(slips) :
                        C11Score(slips[j], nonEmpty) <= C11Score(slips[i], nonEmpty)
    IN  (\E i \in 1..Len(slips) : C11Score(slips[i], nonEmpty) >= 3)
        => \E i \in 1..Len(slips) :
              /\ IsBest(i)
              /\ IF C11Failing(slips[i]) = {}
                 THEN CheckedSuggestions = <<>>
                 ELSE /\ Len(CheckedSuggestions) = 1
                      /\ CheckedSuggestions[1].type = "validation_error"
                      /\ CheckedSuggestions[1].priority = "high"
                      /\ Range(CheckedSuggestions[1].lines) = C11Failing(slips[i])
                      /\ Len(CheckedSuggestions[1].lines)
                            = Cardinality(C11Failing(slips[i]))

C12NoConfidentMatch ==
    \A i \in 1..Len(xFiling.income.t4Slips) :
        C11Score(xFiling.income.t4Slips[i], TRUE) < 3

C12NoSimilarIncome ==
    \A i \in 1..Len(xFiling.income.t4Slips) :
        ~valuesMatch(Amount("employmentIncome"),
                     DecOf(xFiling.income.t4Slips[i].employmentIncome))

\* C12: a t4 document with a present income, for which no slip is a confident
\* match (best score < 3) and no slip's income matches the extracted income, gets
\* exactly one info/low suggestion to add the new record, on every filing, a
\* filing without employment slips included.
C12_NewT4Detected ==
    (/\ Checked("t4")
     /\ IsPresent("employmentIncome")
     /\ C12NoConfidentMatch
     /\ C12NoSimilarIncome)
    => /\ Len(CheckedSuggestions) = 1
       /\ CheckedSuggestions[1].type = "info"
       /\ CheckedSuggestions[1].priority = "low"

Validated == xRet # Null /\ xRet.op = "validateAllDocuments"

\* the suggestions of the first n documents, one document after the other
RECURSIVE C13Concat(_)
C13Concat(n) ==
    IF n = 0 THEN <<>>
    ELSE C13Concat(n - 1) \o crossCheckDocument(xDocs[n], xFiling).discrepancies

\* C13: validateAllDocuments returns the suggestions of the documents in document
\* order with every suggestion dropped whose title an earlier one carries: no
\* title occurs twice, the first suggestion of a title is the one kept, and the
\* kept ones stay in their order.
C13_DedupeByTitle ==
    Validated =>
        LET all == C13Concat(Len(xDocs))
            out == xRet.value
            Kept == {k \in 1..Len(all) : \A j \in 1..(k - 1) : all[j].title # all[k].title}
            Nth(n) == CHOOSE k \in Kept : Cardinality({j \in Kept : j < k}) = n - 1
        IN  /\ \A a, b \in 1..Len(out) : a # b => out[a].title # out[b].title
            /\ Len(out) = Cardinality(Kept)
            /\ \A n \in 1..Len(out) : out[n] = all[Nth(n)]

\* two receipts (5000, then 7000) on a filing without contributions: one
\* 'RRSP Contribution Not Claimed', the one of the first receipt
C13_Witness ==
    /\ Validated
    /\ Len(xDocs) = 2
    /\ \A i \in 1..2 :
          /\ Len(crossCheckDocument(xDocs[i], xFiling).discrepancies) = 1
          /\ crossCheckDocument(xDocs[i], xFiling).discrepancies[1].title
                = "RRSP Contribution Not Claimed"
    /\ xDocs[1] # xDocs[2]
    /\ Len(xRet.value) = 1
    /\ xRet.value[1].title = "RRSP Contribution Not Claimed"
    /\ xRet.value[1].estimatedImpact = DecOf(1250)

CheckedAny == xRet # Null /\ xRet.op = "crossCheckDocument"

\* C14: the result of crossCheckDocument has isValid = TRUE exactly when no
\* discrepancy is of type validation_error, and its matches list is empty; for a
\* document type other than t4, t5, rrsp-receipt and donation-receipt there are no
\* discrepancies and isValid is TRUE.
C14_ResultContract ==
    CheckedAny =>
        /\ xRet.value.isValid
              = (\A k \in 1..Len(CheckedSuggestions) :
                    CheckedSuggestions[k].type # "validation_error")
        /\ xRet.value.matches = <<>>
        /\ xDocs[xRet.i].documentType \notin {"t4", "t5", "rrsp-receipt", "donation-receipt"}
              => (CheckedSuggestions = <<>> /\ xRet.value.isValid)

\* a result that carries a suggestion, none of them a validation_error, and is valid
C14_Witness ==
    /\ CheckedAny
    /\ Len(CheckedSuggestions) = 1
    /\ CheckedSuggestions[1].type = "missing_deduction"
    /\ xRet.value.isValid

\* type, priority and title of each suggestion
Outline(suggestions) ==
    [k \in 1..Len(suggestions) |->
        [type |-> suggestions[k].type, priority |-> suggestions[k].priority,
         title |-> suggestions[k].title]]

\* the fields of the checked document whose value is a string that is no number
\* (it has a character that is not a decimal digit)
C15Unparsable ==
    {name \in DOMAIN CheckedFields \ {"employerName"} :
        /\ IsText(CheckedFields[name])
        /\ \E i \in 1..Len(CheckedFields[name].str) :
              CheckedFields[name].str[i] \notin Range(Digits)}

Omit(doc, name) ==
    [doc EXCEPT !.fields = [n \in DOMAIN doc.fields \ {name} |-> doc.fields[n]]]

\* C15: a non-numeric value in a numeric field is treated as not present: the
\* suggestions (type, priority, title) equal those for the document with that
\* field omitted.
C15_NonNumericAsAbsent ==
    CheckedAny =>
        \A name \in C15Unparsable :
            Outline(CheckedSuggestions)
                = Outline(crossCheckDocument(Omit(xDocs[xRet.i], name),
                                             xFiling).discrepancies)

\* a T4 whose tax deducted reads "8500 CAD" is matched to its slip and reported
\* for its income alone
C15_Witness ==
    /\ Checked("t4")
    /\ "incomeTaxDeducted" \in C15Unparsable
    /\ Len(CheckedSuggestions) = 1
    /\ CheckedSuggestions[1].lines = <<"Employment income">>

\* the slips of the filing whose dividends + interest match the extracted sum
C20Matching ==
    {i \in 1..Len(xFiling.income.t5Slips) :
        valuesMatch(DAdd(Amount("actualDividends"), Amount("interestFromCanadianSources")),
                    DecOf(xFiling.income.t5Slips[i].actualDividends
                          + xFiling.income.t5Slips[i].interestFromCanadianSources))}

\* the present components that fail valuesMatch against slip i
C20Failing(i) ==
    {name \in {"actualDividends", "interestFromCanadianSources"} :
        /\ IsPresent(name)
        /\ ~valuesMatch(Amount(name), DecOf(xFiling.income.t5Slips[i][name]))}

\* C20: a t5 document yields at most one suggestion, always a validation_error;
\* it is yielded exactly when the extracted sum is not 0, a slip matches the sum
\* and a present component fails valuesMatch against the first such slip.
C20_T5MismatchOnly ==
    Checked("t5") =>
        LET sum == DAdd(Amount("actualDividends"), Amount("interestFromCanadianSources"))
            first == CHOOSE i \in C20Matching : \A j \in C20Matching : i <= j
        IN  /\ Len(CheckedSuggestions) <= 1
            /\ \A k \in 1..Len(CheckedSuggestions) :
                  CheckedSuggestions[k].type = "validation_error"
            /\ (Len(CheckedSuggestions) = 1)
                  = (sum # Zero /\ C20Matching # {} /\ C20Failing(first) # {})

\* two slips match the sum 120 (100 + 20 and 50 + 70); the document {70, 50} is
\* compared with the first of them and reported
C20_Witness ==
    /\ Checked("t5")
    /\ Cardinality(C20Matching) = 2
    /\ C20Failing(1) # {}
    /\ C20Failing(2) = {}
    /\ Len(CheckedSuggestions) = 1

\* the contributions already entered on the filing
C21Contributions == xFiling.deductions.rrspContributions

C21Matched ==
    \E i \in 1..Len(C21Contributions) :
        valuesMatch(Amount("contributionAmount"),
                    DecOf(C21Contributions[i].contributionAmount))

C21Total ==
    ISum([i \in 1..Len(C21Contributions) |-> C21Contributions[i].contributionAmount])

\* one suggestion of the given type and priority
C21One(type, priority) ==
    /\ Len(CheckedSuggestions) = 1
    /\ CheckedSuggestions[1].type = type
    /\ CheckedSuggestions[1].priority = priority

\* C21 as stated: for an rrsp-receipt of amount A > 0, a matching contribution
\* gives no suggestion; no match with some contributions entered gives one
\* info/medium suggestion; no match with no contribution entered gives one
\* missing_deduction/high suggestion whose estimatedImpact is A * 0.25.
C21_RRSPByExistence ==
    (Checked("rrsp-receipt") /\ IsPresent("contributionAmount")) =>
        IF C21Matched THEN CheckedSuggestions = <<>>
        ELSE IF Len(C21Contributions) > 0 THEN C21One("info", "medium")
        ELSE /\ C21One("missing_deduction", "high")
             /\ DMulInt(CheckedSuggestions[1].estimatedImpact, 4)
                   = Amount("contributionAmount")

\* C21 amended: for an rrsp-receipt of amount A > 0, a matching contribution
\* gives no suggestion; no match with entered contributions that total more
\* than 0 gives one info/medium suggestion; no match with entered
\* contributions that total 0 (none, or only blank ones) gives one
\* missing_deduction/high suggestion whose estimatedImpact is A * 0.25.
C21_RRSPByTotal ==
    (Checked("rrsp-receipt") /\ IsPresent("contributionAmount")) =>
        IF C21Matched THEN CheckedSuggestions = <<>>
        ELSE IF C21Total > 0 THEN C21One("info", "medium")
        ELSE C21Total = 0 =>
                /\ C21One("missing_deduction", "high")
                /\ DMulInt(CheckedSuggestions[1].estimatedImpact, 4)
                      = Amount("contributionAmount")

\* a receipt of 7000 checked against one blank contribution: the total is 0
\* although a contribution exists, and the receipt is reported as not claimed
C21_Witness ==
    /\ Checked("rrsp-receipt")
    /\ Amount("contributionAmount") = DecOf(7000)
    /\ Len(C21Contributions) = 1
    /\ C21Total = 0
    /\ ~C21Matched
    /\ C21One("missing_deduction", "high")
    /\ CheckedSuggestions[1].estimatedImpact = DecOf(1750)

(***************************************************************************)
(* Properties of the static suggestion rules.                              *)
(***************************************************************************)
RuleTitles ==
    <<"Province Required", "RRSP Contribution Opportunity", "Home Office Deduction",
      "High Deduction Ratio", "Medical Expense Threshold", "Donation Credit Tip",
      "Professional Dues", "Student Loan Interest">>

\* the position in the rule list of the rule that emits the suggestion
RuleOf(s) == CHOOSE k \in 1..Len(RuleTitles) : RuleTitles[k] = s.title

Tier(s) == CASE s.priority = "high" -> 1 [] s.priority = "medium" -> 2 [] OTHER -> 3

\* C16: getStaticSuggestions returns what each of the eight rules emits for the
\* request, all high before all medium before all low, and within a tier in the
\* order of the rule list.
C16_SortedStable ==
    staticSuggestions # Null =>
        LET out == staticSuggestions.list
            emitted == rules(request)
        IN  /\ \A k \in 1..Len(RuleTitles) :
                  emitted[k] # Null => \E n \in 1..Len(out) : out[n] = emitted[k]
            /\ \A n \in 1..Len(out) :
                  \E k \in 1..Len(RuleTitles) : out[n] = emitted[k]
            /\ \A a, b \in 1..Len(out) :
                  a < b => \/ Tier(out[a]) < Tier(out[b])
                           \/ /\ Tier(out[a]) = Tier(out[b])
                              /\ RuleOf(out[a]) < RuleOf(out[b])

\* all eight rules emit; the medium home-office suggestion (third rule) comes
\* after the high deduction-ratio warning (fourth rule)
C16_Witness ==
    /\ staticSuggestions # Null
    /\ Len(staticSuggestions.list) = 8
    /\ staticSuggestions.list[3].title = "High Deduction Ratio"
    /\ staticSuggestions.list[4].title = "Home Office Deduction"
    /\ staticSuggestions.list[8].title = "Student Loan Interest"

\* the income and the deductions of the request as the ratio rule adds them up
C22Income ==
    ISum(<<request.income.t4Total, request.income.t4aTotal, request.income.t4eTotal,
           request.income.t5Total, request.income.t3Total,
           request.income.selfEmploymentIncome, request.income.otherIncome>>)

C22Deductions ==
    ISum(<<request.deductions.rrspTotal, request.deductions.donationsTotal,
           request.deductions.medicalTotal, request.deductions.childcareExpenses,
           request.deductions.movingExpenses, request.deductions.professionalDues>>)

\* the positions of the ratio warning in the returned list
C22Warnings ==
    {n \in 1..Len(staticSuggestions.list) :
        staticSuggestions.list[n].title = "High Deduction Ratio"}

\* C22: getStaticSuggestions returns the High Deduction Ratio warning (once)
\* exactly when the total income is above 0 and deductions / income is above
\* 0.4, so never when the total income is 0, whatever the deductions are.
C22_RatioGuarded ==
    staticSuggestions # Null =>
        /\ Cardinality(C22Warnings) <= 1
        /\ (C22Warnings # {}) = (C22Income > 0 /\ 5 * C22Deductions > 2 * C22Income)
        /\ C22Income = 0 => C22Warnings = {}

\* deductions are claimed against an income of 0 and no warning is returned
C22_Witness ==
    /\ staticSuggestions # Null
    /\ C22Income = 0
    /\ C22Deductions > 0
    /\ C22Warnings = {}

(***************************************************************************)
(* Properties of the filing store under the pages.                         *)
(***************************************************************************)
\* the filings of the store, the current one included
StoredFilings ==
    Range(filings) \cup (IF currentFiling = Null THEN {} ELSE {currentFiling})

\* C17: every filing whose status is not-started or in-progress has summary and
\* confirmationNumber null; a filing carries the two fields only together with
\* the status submitted and the submission time, as submitFiling sets them.
C17_SummaryOnlyWhenSubmitted ==
    \A f \in StoredFilings :
        /\ f.status \in {"not-started", "in-progress"}
              => (f.summary = Null /\ f.confirmationNumber = Null)
        /\ (f.summary # Null \/ f.confirmationNumber # Null)
              => /\ f.status = "submitted"
                 /\ f.summary # Null
                 /\ f.confirmationNumber # Null
                 /\ f.submittedAt # Null

\* a submitted filing with edited personal information next to a filing that is
\* in progress
C17_Witness ==
    /\ \E f \in StoredFilings :
          /\ f.status = "submitted"
          /\ f.personalInfo.firstName = "Ada"
          /\ f.summary # Null
          /\ f.summary.totalIncome = Zero
    /\ \E f \in StoredFilings : f.status = "in-progress" /\ f.summary = Null

\* C18: a filing is submitted once: no step changes the confirmationNumber, the
\* summary or the submittedAt of a filing whose status is submitted.
C18_SubmittedOnce ==
    [][\A f \in StoredFilings :
          f.status = "submitted"
             => \A g \in StoredFilings' :
                   g.id = f.id => /\ g.status = "submitted"
                                  /\ g.confirmationNumber = f.confirmationNumber
                                  /\ g.summary = f.summary
                                  /\ g.submittedAt = f.submittedAt]_vars

\* C19: no two filings of the filings list have the same year.
C19_OneFilingPerYear ==
    \A a, b \in 1..Len(filings) : a # b => filings[a].year # filings[b].year

\* C27: when the submit page is redirected with the confirmation number of a
\* successful response, the current filing of the store is submitted, has a
\* summary and carries that confirmation number.
C27_SubmittedAfterSuccess ==
    [][(pending # Null /\ pending' = Null
            /\ redirect' = [confirmation |-> ProviderConfirmation])
          => /\ currentFiling' # Null
             /\ currentFiling'.status = "submitted"
             /\ currentFiling'.summary # Null
             /\ currentFiling'.confirmationNumber = redirect'.confirmation]_vars

(***************************************************************************)
(* Properties of the filing store and the browser's storage.               *)
(***************************************************************************)
\* C25: whenever currentFiling is not null the filings list holds a filing
\* with its id, whatever page loads, createFiling, loadFiling and deleteFiling
\* calls happened.
C25_CurrentFilingListed ==
    currentFiling # Null =>
        \E k \in 1..Len(filings) : filings[k].id = currentFiling.id

\* C28: once a page is loaded and the auto-save effect has run, the filings in
\* storage are the filings of the in-memory list, so a deleted filing is not
\* in storage any more.
C28_StorageFollowsList ==
    page # "off" => storedFilings = filings

(***************************************************************************)
(* Properties of the document uploader.                                    *)
(***************************************************************************)
\* C26: when handleUpload has gone through all its files, every save having
\* succeeded, the current filing's documents hold the documents that were
\* there when the upload started and every document the upload created.
C26_NoDocumentLost ==
    (uploading # Null /\ uploading.pc = "done") =>
        \A document \in Range(uploading.closure.documents) \cup Range(uploading.created) :
            document \in Range(currentFiling.documents)

(***************************************************************************)
(* Properties of the mock provider.                                        *)
(***************************************************************************)
C29Rank(status) ==
    CASE status = "error" -> 0 [] status = "submitted" -> 1 [] status = "accepted" -> 2

\* the calls that returned success, and the confirmation numbers they returned
C29Successes == {i \in 1..Len(submitResponses) : submitResponses[i].response.success}
C29Returned == {submitResponses[i].response.confirmationNumber : i \in C29Successes}

\* the request breaks one of the validation rules
C29Invalid(r) ==
    \/ Len(r.personalInfo.sin) # 11
    \/ "" \in {r.personalInfo.firstName, r.personalInfo.lastName}
    \/ r.calculated.totalIncome.w < 0
    \/ r.taxYear \notin 2020..CurrentYear

\* what checkStatus reports now, and what each submitFiling call returned
C29Reports ==
    /\ \A c \in StatusQueries :
          LET reported == checkStatus(c)
          IN  /\ c \notin C29Returned => reported = [filingId |-> "", status |-> "error"]
              /\ (c \in C29Returned /\ c \in acceptanceTimers)
                    => reported.status = "submitted"
              /\ (c \in C29Returned /\ c \notin acceptanceTimers)
                    => reported.status = "accepted"
    /\ \A i \in 1..Len(submitResponses) :
          LET call == submitResponses[i]
          IN  IF C29Invalid(call.request)
              THEN /\ ~call.response.success
                   /\ call.response.status = "rejected"
                   /\ "confirmationNumber" \notin DOMAIN call.response
              ELSE /\ call.response.success
                   /\ call.response.status = "submitted"
    /\ Len(mockSubmissions) = Cardinality(C29Successes)
    /\ \A k \in 1..Len(mockSubmissions) : mockSubmissions[k].key \in C29Returned

\* no step takes a reported status back
C29Forward ==
    \A c \in StatusQueries :
        C29Rank(checkStatus(c).status)' >= C29Rank(checkStatus(c).status)

\* C29: checkStatus reports error for a number no successful submitFiling
\* returned, submitted from the return of the number on and accepted once its
\* timer has fired, and never an earlier status again; every returned number
\* is eventually reported accepted; a call whose request fails validateFiling
\* returns success = false, status rejected, no confirmation number, and stores
\* nothing.
C29_StatusMovesForward ==
    /\ []C29Reports
    /\ [][C29Forward]_vars
    /\ \A c \in StatusQueries :
          (c \in C29Returned) ~> (checkStatus(c).status = "accepted")

\* one call was rejected, the other returned a number that checkStatus has
\* reported as accepted
C29_Witness ==
    /\ Len(submitResponses) = 2
    /\ Cardinality(C29Successes) = 1
    /\ statusResponse # Null
    /\ statusResponse.query \in C29Returned
    /\ statusResponse.response.status = "accepted"

(***************************************************************************)
(* Properties of the chat.                                                 *)
(***************************************************************************)
C30Ended == IF chatCall = Null THEN FALSE ELSE chatCall.pc \in {"done", "caught"}

C30Placeholder ==
    chat.messages[CHOOSE i \in 1..Len(chat.messages) :
                      chat.messages[i].id = chatCall.assistantId]

\* C30: when sendMessage has ended and its response stream delivered an event
\* of type error, state.error is not null, isStreaming is false, and the
\* assistant placeholder holds the apology text with its isStreaming flag
\* cleared.
C30_ErrorEventEndsInError ==
    IF C30Ended
    THEN chatCall.errorEvent =>
            /\ chat.error # Null
            /\ ~chat.isStreaming
            /\ C30Placeholder.content = ApologyText
            /\ ~C30Placeholder.isStreaming
    ELSE TRUE

====
